---- MODULE Spec2Model ----
(***************************************************************************)
(* A model of the Enigma simulator (enigma.py) and of the crib search      *)
(* built on it (code_breaker.py).                                          *)
(*                                                                         *)
(* Letters are the one-character strings "A" .. "Z".  Python lists and     *)
(* deques are sequences; a Python index i is the TLA+ index i + 1, and the *)
(* operators Idx0 and At0 do the conversion.  A notch of False (the Beta   *)
(* and Gamma rotors) is the number 0: False behaves as 0 in Python's       *)
(* arithmetic and comparisons, and an integer notch always lies in 1..26.  *)
(***************************************************************************)
EXTENDS Integers, Sequences, FiniteSets, TLC

VARIABLES
    drum,                  \* Enigma.drum: the rotors, slot 0 first
    plugboard,             \* Enigma.plugboard / CodeBreaker.plugboard
    reflector,             \* Enigma.reflector / CodeBreaker.reflector
    pc,                    \* where encode_sequence stands: "idle", "loop"
    a_string,              \* encode_sequence's argument
    encoded,               \* encode_sequence's local: the output so far
    third_notch_rotation,  \* encode_sequence's local
    raised,                \* the exception the last call ended with, or "none"
    last_op,               \* history: the last call, its argument and the drum before it
    last_call,             \* history: text and result of the last encode_sequence that returned
    steps,                 \* history: per character of the running call, the rot of step_rotors
    last_add,              \* history: the last Plugboard.add, its lead and the plugboard before it
    the_lead,              \* a PlugLead on its own: its lead_mapping, and the argument it was built from
    unit_call,             \* history: the last call on a single object, its argument and what it returned
    data,                  \* CodeBreaker.data, which holds code and crib
    missing_information,   \* CodeBreaker.missing_information
    plug_combinations,     \* CodeBreaker.plug_combinations
    cb_pc,                 \* where CodeBreaker.encode stands: "none", "trial", "advance", "returned", "raised"
    enc_i,                 \* CodeBreaker.encode's local i
    sp,                    \* CodeBreaker.encode's local sp
    cypher,                \* CodeBreaker.encode's local cypher
    result,                \* CodeBreaker.encode's local result
    tested                 \* history: the settings of the engine at each trial encoding

\* the running encode_sequence call and the history kept about the engine
call_vars == <<pc, a_string, encoded, third_notch_rotation, last_op, last_call, steps>>

\* the objects called on their own and the history kept about them
plug_vars == <<last_add, the_lead, unit_call>>

breaker_vars ==
    <<data, missing_information, plug_combinations, cb_pc, enc_i, sp, cypher, result, tested>>

vars == <<drum, plugboard, reflector, raised, call_vars, plug_vars, breaker_vars>>

----------------------------------------------------------------------------
(* RotorData                                                               *)

sequence(name) ==
    CASE name = "alpha" -> <<"A","B","C","D","E","F","G","H","I","J","K","L","M","N","O","P","Q","R","S","T","U","V","W","X","Y","Z">>
    [] name = "beta" -> <<"L","E","Y","J","V","C","N","I","X","W","P","B","Q","M","D","R","T","A","K","Z","G","F","U","H","O","S">>
    [] name = "gamma" -> <<"F","S","O","K","A","N","U","E","R","H","M","B","T","I","Y","C","W","L","Q","P","Z","X","V","G","J","D">>
    [] name = "i" -> <<"E","K","M","F","L","G","D","Q","V","Z","N","T","O","W","Y","H","X","U","S","P","A","I","B","R","C","J">>
    [] name = "ii" -> <<"A","J","D","K","S","I","R","U","X","B","L","H","W","T","M","C","Q","G","Z","N","P","Y","F","V","O","E">>
    [] name = "iii" -> <<"B","D","F","H","J","L","C","P","R","T","X","V","Z","N","Y","E","I","W","G","A","K","M","U","S","Q","O">>
    [] name = "iv" -> <<"E","S","O","V","P","Z","J","A","Y","Q","U","I","R","H","X","L","N","F","T","G","K","D","C","M","W","B">>
    [] name = "v" -> <<"V","Z","B","R","G","I","T","Y","U","P","S","D","N","H","L","X","A","W","M","J","Q","O","F","E","C","K">>
    [] name = "a" -> <<"E","J","M","Z","A","L","Y","X","V","B","W","F","C","R","Q","U","O","N","T","S","P","I","K","H","G","D">>
    [] name = "b" -> <<"Y","R","U","H","Q","S","L","D","P","X","N","G","O","K","M","I","E","B","F","Z","C","W","V","J","A","T">>
    [] name = "c" -> <<"F","V","P","J","I","A","O","Y","E","D","R","Z","X","W","G","C","T","K","U","Q","S","B","N","M","H","L">>

\* RotorData.notch; 0 stands for False (no notch)
notch(name) ==
    CASE name = "i" -> 17
    [] name = "ii" -> 5
    [] name = "iii" -> 22
    [] name = "iv" -> 10
    [] name = "v" -> 26
    [] name = "beta" -> 0
    [] name = "gamma" -> 0

\* str.lower() on the type names the callers use
lower(name) ==
    CASE name \in {"I", "i"} -> "i"
    [] name \in {"II", "ii"} -> "ii"
    [] name \in {"III", "iii"} -> "iii"
    [] name \in {"IV", "iv"} -> "iv"
    [] name \in {"V", "v"} -> "v"
    [] name \in {"Beta", "beta", "BETA"} -> "beta"
    [] name \in {"Gamma", "gamma", "GAMMA"} -> "gamma"
    [] name \in {"A", "a"} -> "a"
    [] name \in {"B", "b"} -> "b"
    [] name \in {"C", "c"} -> "c"

\* Enigma.wiring
wiring == <<"A","B","C","D","E","F","G","H","I","J","K","L","M","N","O","P","Q","R","S","T","U","V","W","X","Y","Z">>

Letters == {wiring[i] : i \in 1..Len(wiring)}

----------------------------------------------------------------------------
(* Python sequence primitives                                              *)

\* Body applied to the value.  The value is evaluated once, here, however
\* often Body uses it
With(value, Body(_)) == CHOOSE out \in {Body(v) : v \in {value}} : TRUE

\* s.index(x): the 0-based position of the first x in s (x occurs in s)
Idx0(s, x) == (CHOOSE i \in 1..Len(s) : s[i] = x /\ \A j \in 1..(i - 1) : s[j] # x) - 1

\* s[i] for a 0-based index i >= 0
At0(s, i) == s[i + 1]

\* deque.rotate(n) for n in {-1, 1}: -1 moves the first element to the end,
\* 1 moves the last element to the front
deque_rotate(s, n) ==
    IF Len(s) = 0 THEN s
    ELSE IF n = -1 THEN Append(Tail(s), Head(s))
    ELSE <<s[Len(s)]>> \o SubSeq(s, 1, Len(s) - 1)

\* mutant: the type test dropped, so that False counts as the number 0
notch_is_int_dropped(n) == TRUE

\* type(notch) is int
notch_is_int(n) == n # 0

----------------------------------------------------------------------------
(* Rotor                                                                   *)

set_rotor_offset(r, direction) ==
    With(r, LAMBDA self :
        LET o1 == self.rotor_offset + direction
            o2 == IF o1 <= 1 THEN 26 ELSE o1
            o3 == IF o2 >= 27 THEN 1 ELSE o2
        IN [self EXCEPT !.rotor_offset = o3])

adjust_notch_position(r) ==
    With(r, LAMBDA self :
        IF notch_is_int(self.notch)
        THEN [self EXCEPT !.notch = IF self.notch - 1 < 1 THEN 26 ELSE self.notch - 1]
        ELSE self)

rotate_rotor(r, direction) ==
    With(r, LAMBDA self :
        [self EXCEPT !.rotor_wiring = deque_rotate(self.rotor_wiring, direction),
                     !.label = deque_rotate(self.label, direction)])

\* set_rotor_to_initial_position's loop, n passes
RECURSIVE initial_position_loop(_, _)
initial_position_loop(r, n) ==
    IF n <= 0 THEN r
    ELSE With(set_rotor_offset(
                  [r EXCEPT !.rotor_wiring = deque_rotate(r.rotor_wiring, -1),
                            !.label = deque_rotate(r.label, -1)], 1),
              LAMBDA next : With(n - 1, LAMBDA m : initial_position_loop(next, m)))

set_rotor_to_initial_position(r, initial_position) ==
    With(r, LAMBDA self :
        With(Idx0(self.label, initial_position), LAMBDA n : initial_position_loop(self, n)))

\* set_rotor_ring_setting's loop, n passes
RECURSIVE ring_setting_loop(_, _)
ring_setting_loop(r, n) ==
    IF n <= 0 THEN r
    ELSE With(adjust_notch_position(
                  set_rotor_offset(
                      [r EXCEPT !.rotor_wiring = deque_rotate(r.rotor_wiring, 1),
                                !.label = deque_rotate(r.label, 1)], -1)),
              LAMBDA next : With(n - 1, LAMBDA m : ring_setting_loop(next, m)))

set_rotor_ring_setting(r, ring_setting) ==
    With(r, LAMBDA self :
        With(ring_setting - 1, LAMBDA n : ring_setting_loop(self, n)))

\* Rotor.__init__
Rotor(rotor_type, initial_position, ring_setting) ==
    LET r0 == [notch |-> notch(lower(rotor_type)),
               rotor_type |-> rotor_type,
               rotor_offset |-> 1,
               rotor_wiring |-> sequence(lower(rotor_type)),
               label |-> sequence("alpha"),
               initial_position |-> initial_position,
               ring_setting |-> ring_setting]
    IN set_rotor_ring_setting(
           set_rotor_to_initial_position(r0, initial_position), ring_setting)

\* mutant: line 318 left out, the notch is not restored before the ring
\* setting is applied again
reset_deque_keeping_notch(r) ==
    With(r, LAMBDA self :
        LET r0 == [self EXCEPT !.rotor_offset = 1,
                               !.rotor_wiring = sequence(lower(self.rotor_type)),
                               !.label = sequence("alpha")]
        IN set_rotor_ring_setting(
               set_rotor_to_initial_position(r0, self.initial_position), self.ring_setting))

reset_deque(r) ==
    With(r, LAMBDA self :
        LET r0 == [self EXCEPT !.notch = notch(lower(self.rotor_type)),
                               !.rotor_offset = 1,
                               !.rotor_wiring = sequence(lower(self.rotor_type)),
                               !.label = sequence("alpha")]
        IN set_rotor_ring_setting(
               set_rotor_to_initial_position(r0, self.initial_position), self.ring_setting))

----------------------------------------------------------------------------
(* PlugLead: the object is its lead_mapping, a set of letters              *)

lowercase == <<"a","b","c","d","e","f","g","h","i","j","k","l","m","n","o","p","q","r","s","t","u","v","w","x","y","z">>

\* str.isalpha() and str.upper() on one character
isalpha(c) == (\E i \in 1..Len(wiring) : wiring[i] = c) \/ (\E i \in 1..Len(lowercase) : lowercase[i] = c)

upper(c) == IF \E i \in 1..Len(lowercase) : lowercase[i] = c THEN At0(wiring, Idx0(lowercase, c)) ELSE c

\* PlugLead.__init__ on a string, given as the sequence of its characters
PlugLead(mapping) ==
    IF Len(mapping) = 2 /\ isalpha(mapping[1]) /\ isalpha(mapping[2])
    THEN {upper(mapping[1]), upper(mapping[2])}
    ELSE {}

\* PlugLead.__init__ on any value: is_str is the outcome of type(mapping) == str
PlugLead_of(is_str, mapping) == IF is_str THEN PlugLead(mapping) ELSE {}

\* PlugLead.encode; "KeyError" when set.pop() finds the difference empty
PlugLead_encode(lead_mapping, character) ==
    IF character \in lead_mapping
    THEN IF lead_mapping \ {character} = {} THEN "KeyError"
         ELSE CHOOSE x \in lead_mapping \ {character} : TRUE
    ELSE character

----------------------------------------------------------------------------
(* Plugboard                                                               *)

\* the letters of a set in alphabetical order: list.extend(a set) appends
\* them in the set's iteration order, which nothing reads (plugs_in_use and
\* connected_wires are only searched)
letters_of(set) == SelectSeq(wiring, LAMBDA x : x \in set)

contains(list, x) == \E i \in 1..Len(list) : list[i] = x

\* Plugboard.__init__
Plugboard == [plug_leads |-> << >>, plugs_in_use |-> << >>]

plugs_connected(pb) == Len(pb.plug_leads)

\* the capacity test of Plugboard.add
plugs_available(pb) == plugs_connected(pb) < 10

\* mutant: the letters in use are not looked at
plugs_free_unchecked(pb, plug_lead) == TRUE

\* the test of Plugboard.add that no plug of the lead is in use
plugs_free(pb, plug_lead) == ~ \E plug \in plug_lead : contains(pb.plugs_in_use, plug)

\* Plugboard.add: the plugboard after the call and the exception raised
Plugboard_add(pb, plug_lead) ==
    With(pb, LAMBDA self :
    With([plug_leads |-> Append(self.plug_leads, plug_lead),
          plugs_in_use |-> self.plugs_in_use \o letters_of(plug_lead)], LAMBDA added :
        IF plugs_connected(self) = 0 THEN [pb |-> added, exc |-> "none"]
        ELSE IF plugs_available(self)
             THEN IF plugs_free(self, plug_lead)
                  THEN [pb |-> added, exc |-> "none"]
                  ELSE [pb |-> self, exc |-> "none"]
             ELSE [pb |-> self, exc |-> "NoPlugsAvailableException"]))

\* Plugboard.encode
RECURSIVE Plugboard_encode_from(_, _, _)
Plugboard_encode_from(pb, character, i) ==
    IF i > Len(pb.plug_leads) THEN character
    ELSE IF character \in pb.plug_leads[i]
         THEN PlugLead_encode(pb.plug_leads[i], character)
         ELSE Plugboard_encode_from(pb, character, i + 1)

Plugboard_encode(pb, character) == Plugboard_encode_from(pb, character, 1)

----------------------------------------------------------------------------
(* Reflector                                                               *)

\* Reflector.get_wiring_pairs: the loop from index i on, wiring_pairs built so far
RECURSIVE wiring_pairs_from(_, _, _)
wiring_pairs_from(refl, i, pairs) ==
    IF i >= Len(refl.label) - 1 THEN pairs
    ELSE CHOOSE out \in
             {wiring_pairs_from(refl, i + 1, next) : next \in
                 {IF \E k \in 1..Len(pairs) : contains(pairs[k], At0(refl.label, i))
                  THEN pairs
                  ELSE Append(pairs, <<At0(refl.label, i), At0(refl.reflector_sequence, i)>>)}} : TRUE

get_wiring_pairs(refl) == wiring_pairs_from(refl, 0, << >>)

\* Reflector.add
Reflector_add(refl, plug_lead) ==
    With(refl, LAMBDA self :
        IF Len(self.wiring) = 0
           \/ ~ \E plug \in plug_lead : contains(self.connected_wires, plug)
        THEN [self EXCEPT !.wiring = Append(self.wiring, plug_lead),
                          !.connected_wires = self.connected_wires \o letters_of(plug_lead)]
        ELSE self)

\* Reflector.wire_reflector
RECURSIVE wire_reflector_from(_, _, _)
wire_reflector_from(refl, wires, i) ==
    IF i > Len(wires) THEN refl
    ELSE CHOOSE out \in
             {wire_reflector_from(next, wires, i + 1) : next \in
                 {Reflector_add(refl, PlugLead(wires[i]))}} : TRUE

wire_reflector(refl, wires) ==
    With(wires, LAMBDA pairs : wire_reflector_from(refl, pairs, 1))

\* Reflector.__init__ before the wiring is built
Reflector_fields(reflector_type) ==
    [reflector_sequence |-> sequence(lower(reflector_type)),
     label |-> sequence("alpha"),
     r_type |-> reflector_type,
     wiring |-> << >>,
     connected_wires |-> << >>]

\* Reflector(reflector_type): wiring is None
Reflector(reflector_type) ==
    With(Reflector_fields(reflector_type), LAMBDA self :
        wire_reflector(self, get_wiring_pairs(self)))

\* Reflector(reflector_type, wiring)
Reflector_wired(reflector_type, wires) ==
    wire_reflector(Reflector_fields(reflector_type), wires)

\* Reflector.encode: the index of the partner; -1 stands for the character
\* itself, a str, returned when no lead holds it
RECURSIVE Reflector_encode_from(_, _, _)
Reflector_encode_from(refl, character, i) ==
    IF i > Len(refl.wiring) THEN -1
    ELSE IF character \in refl.wiring[i]
         THEN Idx0(refl.label, PlugLead_encode(refl.wiring[i], character))
         ELSE Reflector_encode_from(refl, character, i + 1)

\* mutant: the leads are not followed, the character keeps its contact
Reflector_encode_unwired(refl, character) == Idx0(refl.label, character)

Reflector_encode(refl, character) == Reflector_encode_from(refl, character, 1)

----------------------------------------------------------------------------
(* Enigma                                                                  *)

\* mutant: three rotors are refused too
missing_rotors_off_by_one(d) == Len(d) < 4

\* encode_sequence, line 25: too few rotors
missing_rotors(d) == Len(d) < 3

\* mutant: a fifth rotor is accepted
drum_full_off_by_one(d) == Len(d) > 4

\* add_rotor, line 75: the drum is full
drum_full(d) == Len(d) > 3

\* encode_sequence, lines 29-32: the initial third_notch_rotation
third_notch_initial(d) ==
    notch_is_int(d[3].notch) /\ d[3].notch = Idx0(wiring, At0(d[3].label, 2)) - 1

\* line 36: rotor 0 stands on its notch
first_rotor_on_notch(d) ==
    notch_is_int(d[1].notch) /\ d[1].notch = Idx0(wiring, At0(d[1].label, 0))

\* line 40: rotor 1 stands one before its notch
second_rotor_before_notch(d) ==
    notch_is_int(d[1].notch) /\ d[2].notch - 1 = Idx0(wiring, At0(d[2].label, 0))

\* lines 43-44: rotor 1 stands on its notch and the third rotor may turn
second_rotor_on_notch(d, tnr) ==
    notch_is_int(d[2].notch) /\ d[2].notch = Idx0(wiring, At0(d[2].label, 0)) /\ tnr

\* mutant: the rotor in the last slot is rotated with the rotor in slot 0
step_rotors_with_last(d, tnr) ==
    With([d EXCEPT ![1] = rotate_rotor(d[1], -1)], LAMBDA d0 :
        [drum |-> [d0 EXCEPT ![Len(d0)] = rotate_rotor(d0[Len(d0)], -1)],
         tnr |-> tnr,
         rot |-> <<1, 0, 0, FALSE>>])

\* lines 35-46: the stepping of one character.  rot counts the
\* rotate_rotor calls made on slots 0, 1, 2 and ends with the outcome of the
\* test of line 36
step_rotors(d, tnr) ==
    With([d EXCEPT ![1] = rotate_rotor(d[1], -1)], LAMBDA d0 :
    With(first_rotor_on_notch(d0), LAMBDA c1 :
    With(IF c1 THEN [d0 EXCEPT ![2] = set_rotor_offset(rotate_rotor(d0[2], -1), 1)] ELSE d0,
         LAMBDA d1 :
    With(IF c1 THEN TRUE ELSE tnr, LAMBDA t1 :
    With(second_rotor_before_notch(d1), LAMBDA c2 :
    With(IF c2 THEN [d1 EXCEPT ![2] = set_rotor_offset(rotate_rotor(d1[2], -1), 1)] ELSE d1,
         LAMBDA d2 :
    With(second_rotor_on_notch(d2, t1), LAMBDA c3 :
    With(IF c3 THEN [d2 EXCEPT ![3] = rotate_rotor(d2[3], -1)] ELSE d2, LAMBDA d3 :
        [drum |-> d3,
         tnr |-> IF c3 THEN FALSE ELSE t1,
         rot |-> <<1, (IF c1 THEN 1 ELSE 0) + (IF c2 THEN 1 ELSE 0),
                   IF c3 THEN 1 ELSE 0, c1>>]))))))))

\* mutant: the way in uses the lookup of the way back
RECURSIVE right_to_left_as_backward(_, _, _)
right_to_left_as_backward(d, contact, n) ==
    IF n > Len(d) THEN contact
    ELSE With(Idx0(d[n].rotor_wiring, At0(d[n].label, contact)), LAMBDA next :
             right_to_left_as_backward(d, next, n + 1))

\* lines 51-52: the current from right to left, from rotor n on
RECURSIVE right_to_left(_, _, _)
right_to_left(d, contact, n) ==
    IF n > Len(d) THEN contact
    ELSE With(Idx0(d[n].label, At0(d[n].rotor_wiring, contact)), LAMBDA next :
             right_to_left(d, next, n + 1))

\* mutant: the way back uses the lookup of the way in
RECURSIVE left_to_right_as_forward(_, _, _)
left_to_right_as_forward(d, contact, n) ==
    IF n < 1 THEN contact
    ELSE With(Idx0(d[n].label, At0(d[n].rotor_wiring, contact)), LAMBDA next :
             left_to_right_as_forward(d, next, n - 1))

\* lines 56-57: the current from left to right, from rotor n down
RECURSIVE left_to_right(_, _, _)
left_to_right(d, contact, n) ==
    IF n < 1 THEN contact
    ELSE With(Idx0(d[n].rotor_wiring, At0(d[n].label, contact)), LAMBDA next :
             left_to_right(d, next, n - 1))

\* lines 48-59: one letter through plugboard, rotors, reflector and back.
\* A KeyError comes from a one-letter lead, a TypeError from indexing a label
\* with the character an incomplete reflector returned
encode_letter(d, pb, refl, letter) ==
    With(Plugboard_encode(pb, letter), LAMBDA p :
        IF p = "KeyError" THEN [exc |-> "KeyError", letter |-> letter]
        ELSE With(At0(wiring, right_to_left(d, Idx0(wiring, p), 1)), LAMBDA inner :
             With(Reflector_encode(refl, inner), LAMBDA back :
                 IF back = -1 THEN [exc |-> "TypeError", letter |-> letter]
                 ELSE With(At0(wiring, left_to_right(d, back, Len(d))), LAMBDA outer :
                      With(Plugboard_encode(pb, outer), LAMBDA q :
                          IF q = "KeyError" THEN [exc |-> "KeyError", letter |-> letter]
                          ELSE [exc |-> "none", letter |-> q])))))

\* mutant: the rotors are not stepped for the letter K
loop_body_holding_on_K(st, pb, refl, letter) ==
    With(IF letter = "K"
         THEN [drum |-> st.drum, tnr |-> st.tnr, rot |-> <<0, 0, 0, FALSE>>]
         ELSE step_rotors(st.drum, st.tnr), LAMBDA stepped :
    With(encode_letter(stepped.drum, pb, refl, letter), LAMBDA res :
        IF res.exc # "none"
        THEN [drum |-> stepped.drum, tnr |-> stepped.tnr, encoded |-> st.encoded,
              exc |-> res.exc, rot |-> stepped.rot]
        ELSE [drum |-> [stepped.drum EXCEPT ![1] = set_rotor_offset(stepped.drum[1], 1)],
              tnr |-> stepped.tnr, encoded |-> Append(st.encoded, res.letter),
              exc |-> "none", rot |-> stepped.rot]))

\* lines 35-60: one pass of the loop on the loop state
\* st = [drum, tnr, encoded, exc, rot]
loop_body(st, pb, refl, letter) ==
    With(step_rotors(st.drum, st.tnr), LAMBDA stepped :
    With(encode_letter(stepped.drum, pb, refl, letter), LAMBDA res :
        IF res.exc # "none"
        THEN [drum |-> stepped.drum, tnr |-> stepped.tnr, encoded |-> st.encoded,
              exc |-> res.exc, rot |-> stepped.rot]
        ELSE [drum |-> [stepped.drum EXCEPT ![1] = set_rotor_offset(stepped.drum[1], 1)],
              tnr |-> stepped.tnr, encoded |-> Append(st.encoded, res.letter),
              exc |-> "none", rot |-> stepped.rot]))

\* lines 63-64: every rotor reset, from rotor n on
RECURSIVE reset_drum_from(_, _)
reset_drum_from(d, n) ==
    IF n > Len(d) THEN d
    ELSE With([d EXCEPT ![n] = reset_deque(d[n])], LAMBDA next : reset_drum_from(next, n + 1))

reset_drum(d) == With(d, LAMBDA drum0 : reset_drum_from(drum0, 1))

\* lines 34-60 from character i of the text on
RECURSIVE encode_loop(_, _, _, _, _)
encode_loop(st, pb, refl, text, i) ==
    IF i > Len(text) \/ st.exc # "none" THEN st
    ELSE With(loop_body(st, pb, refl, text[i]), LAMBDA next :
             encode_loop(next, pb, refl, text, i + 1))

\* Enigma.encode_sequence as one call: the exception raised, the string
\* returned and the drum it leaves
encode_sequence(d, pb, refl, text) ==
    IF missing_rotors(d)
    THEN [exc |-> "MissingRotors", encoded |-> << >>, drum |-> d]
    ELSE With([drum |-> d, tnr |-> third_notch_initial(d),
               encoded |-> << >>, exc |-> "none", rot |-> <<0, 0, 0, FALSE>>], LAMBDA st0 :
         With(encode_loop(st0, pb, refl, text, 1), LAMBDA st :
             IF st.exc # "none"
             THEN [exc |-> st.exc, encoded |-> << >>, drum |-> st.drum]
             ELSE [exc |-> "none", encoded |-> st.encoded, drum |-> reset_drum(st.drum)]))

----------------------------------------------------------------------------
(* The engine as a state machine: add_rotor, set_plugboard, set_reflector  *)
(* and encode_sequence, the last in three steps (entry, one pass of the    *)
(* loop per character, reset and return).  The engine starts with its      *)
(* plugboard and reflector set, as every caller sets them before encoding. *)

\* the longest text encoded
MaxLen == 2

\* the plugboard built by adding the leads of a list of strings
RECURSIVE plugboard_of(_, _, _)
plugboard_of(pb, plugs, i) ==
    IF i > Len(plugs) THEN pb
    ELSE With(Plugboard_add(pb, PlugLead(plugs[i])).pb, LAMBDA next :
             plugboard_of(next, plugs, i + 1))

RotorChoices == {Rotor("III", "V", 2), Rotor("II", "D", 1), Rotor("Beta", "Z", 1)}

PlugboardChoices == {Plugboard, plugboard_of(Plugboard, << <<"A", "V">>, <<"X", "N">> >>, 1)}

ReflectorChoices == {Reflector("B")}

InputLetters == {"A", "V"}

\* the texts of length 0..n over InputLetters
RECURSIVE TextsUpTo(_)
TextsUpTo(n) ==
    IF n = 0 THEN {<< >>}
    ELSE TextsUpTo(n - 1) \cup
         {Append(t, x) : t \in {u \in TextsUpTo(n - 1) : Len(u) = n - 1}, x \in InputLetters}

Texts == TextsUpTo(MaxLen)

NoCall == [known |-> FALSE, text |-> << >>, result |-> << >>]

NoOp == [op |-> "none", drum |-> << >>, arg |-> << >>]

NoAdd == [known |-> FALSE, before |-> Plugboard, lead |-> {}]

NoLead == [lead_mapping |-> {}, is_str |-> TRUE, mapping |-> << >>]

NoUnitCall == [op |-> "none", arg |-> << >>, out |-> << >>, prev |-> << >>]

\* no single object has been called on its own
NoPlugHistory ==
    /\ last_add = NoAdd
    /\ the_lead = NoLead
    /\ unit_call = NoUnitCall

\* no CodeBreaker has been built
NoBreaker ==
    /\ data = << >>
    /\ missing_information = << >>
    /\ plug_combinations = << >>
    /\ cb_pc = "none"
    /\ enc_i = 0
    /\ sp = << >>
    /\ cypher = << >>
    /\ result = << >>
    /\ tested = << >>

Init ==
    /\ drum = << >>
    /\ plugboard \in PlugboardChoices
    /\ reflector \in ReflectorChoices
    /\ pc = "idle"
    /\ a_string = << >>
    /\ encoded = << >>
    /\ third_notch_rotation = FALSE
    /\ raised = "none"
    /\ last_op = NoOp
    /\ last_call = NoCall
    /\ steps = << >>
    /\ NoPlugHistory
    /\ NoBreaker

\* Enigma.add_rotor
AddRotor(rotor) ==
    /\ pc = "idle"
    /\ IF drum_full(drum)
       THEN /\ raised' = "EnigmaDrumFull"
            /\ drum' = drum
       ELSE /\ raised' = "none"
            /\ drum' = Append(drum, rotor)
    /\ last_op' = [op |-> "add_rotor", drum |-> drum, arg |-> rotor]
    /\ last_call' = NoCall
    /\ steps' = << >>
    /\ UNCHANGED <<plugboard, reflector, pc, a_string, encoded, third_notch_rotation>>
    /\ UNCHANGED <<plug_vars, breaker_vars>>

\* Enigma.set_plugboard
SetPlugboard(pb) ==
    /\ pc = "idle"
    /\ plugboard' = pb
    /\ raised' = "none"
    /\ last_op' = [op |-> "set_plugboard", drum |-> drum, arg |-> << >>]
    /\ last_call' = NoCall
    /\ steps' = << >>
    /\ UNCHANGED <<drum, reflector, pc, a_string, encoded, third_notch_rotation>>
    /\ UNCHANGED <<plug_vars, breaker_vars>>

\* Enigma.set_reflector
SetReflector(refl) ==
    /\ pc = "idle"
    /\ reflector' = refl
    /\ raised' = "none"
    /\ last_op' = [op |-> "set_reflector", drum |-> drum, arg |-> << >>]
    /\ last_call' = NoCall
    /\ steps' = << >>
    /\ UNCHANGED <<drum, plugboard, pc, a_string, encoded, third_notch_rotation>>
    /\ UNCHANGED <<plug_vars, breaker_vars>>

\* encode_sequence, lines 23-32: the call, the rotor count, third_notch_rotation
EncodeBegin(text) ==
    /\ pc = "idle"
    /\ last_op' = [op |-> "encode_sequence", drum |-> drum, arg |-> text]
    /\ steps' = << >>
    /\ encoded' = << >>
    /\ IF missing_rotors(drum)
       THEN /\ raised' = "MissingRotors"
            /\ pc' = "idle"
            /\ a_string' = << >>
            /\ third_notch_rotation' = FALSE
       ELSE /\ raised' = "none"
            /\ pc' = "loop"
            /\ a_string' = text
            /\ third_notch_rotation' = third_notch_initial(drum)
    /\ UNCHANGED <<drum, plugboard, reflector, last_call>>
    /\ UNCHANGED <<plug_vars, breaker_vars>>

\* encode_sequence, lines 34-60: one pass of the loop
EncodeChar ==
    /\ pc = "loop"
    /\ Len(encoded) < Len(a_string)
    /\ LET st == loop_body([drum |-> drum, tnr |-> third_notch_rotation,
                            encoded |-> encoded, exc |-> "none", rot |-> <<0, 0, 0, FALSE>>],
                           plugboard, reflector, a_string[Len(encoded) + 1])
       IN /\ drum' = st.drum
          /\ steps' = Append(steps, st.rot)
          /\ IF st.exc # "none"
             THEN /\ raised' = st.exc
                  /\ pc' = "idle"
                  /\ a_string' = << >>
                  /\ encoded' = << >>
                  /\ third_notch_rotation' = FALSE
             ELSE /\ encoded' = st.encoded
                  /\ third_notch_rotation' = st.tnr
                  /\ UNCHANGED <<raised, pc, a_string>>
    /\ UNCHANGED <<plugboard, reflector, last_op, last_call>>
    /\ UNCHANGED <<plug_vars, breaker_vars>>

\* encode_sequence, lines 62-65: the rotors reset, the string returned
EncodeReturn ==
    /\ pc = "loop"
    /\ Len(encoded) = Len(a_string)
    /\ drum' = reset_drum(drum)
    /\ last_call' = [known |-> TRUE, text |-> a_string, result |-> encoded]
    /\ pc' = "idle"
    /\ a_string' = << >>
    /\ encoded' = << >>
    /\ third_notch_rotation' = FALSE
    /\ UNCHANGED <<plugboard, reflector, raised, last_op, steps>>
    /\ UNCHANGED <<plug_vars, breaker_vars>>

Next ==
    \/ \E rotor \in RotorChoices : AddRotor(rotor)
    \/ \E pb \in PlugboardChoices : SetPlugboard(pb)
    \/ \E refl \in ReflectorChoices : SetReflector(refl)
    \/ \E text \in Texts : EncodeBegin(text)
    \/ EncodeChar
    \/ EncodeReturn

Spec == Init /\ [][Next]_vars

----------------------------------------------------------------------------
(* The engine on complete configurations, encoding single letters          *)

RecipDrums ==
    {<<Rotor("V", "M", 14), Rotor("Gamma", "J", 2), Rotor("Beta", "M", 4)>>,
     <<Rotor("III", "V", 2), Rotor("II", "D", 1), Rotor("I", "A", 1)>>,
     <<Rotor("IV", "Z", 19), Rotor("III", "V", 15), Rotor("II", "E", 11), Rotor("I", "Q", 7)>>}

RecipPlugboards ==
    {Plugboard, plugboard_of(Plugboard, << <<"K", "I">>, <<"X", "N">>, <<"F", "L">> >>, 1)}

RecipReflectors == {Reflector("a"), Reflector("B"), Reflector("C")}

InitRecip ==
    /\ drum \in RecipDrums
    /\ plugboard \in RecipPlugboards
    /\ reflector \in RecipReflectors
    /\ pc = "idle"
    /\ a_string = << >>
    /\ encoded = << >>
    /\ third_notch_rotation = FALSE
    /\ raised = "none"
    /\ last_op = NoOp
    /\ last_call = NoCall
    /\ steps = << >>
    /\ NoPlugHistory
    /\ NoBreaker

NextRecip ==
    \/ \E x \in Letters : EncodeBegin(<<x>>)
    \/ EncodeChar
    \/ EncodeReturn

SpecRecip == InitRecip /\ [][NextRecip]_vars

----------------------------------------------------------------------------
(* Claims on the engine                                                    *)

\* the running encode_sequence has consumed its whole text and is about to
\* reset the rotors and return `encoded`
AboutToReturn == pc = "loop" /\ Len(encoded) = Len(a_string)

\* encode_sequence has just returned
Returned == pc = "idle" /\ last_op.op = "encode_sequence" /\ raised = "none"

\* the rotors as their constructor builds them from type, initial position
\* and ring setting
constructed(d) ==
    [n \in 1..Len(d) |-> Rotor(d[n].rotor_type, d[n].initial_position, d[n].ring_setting)]

\* C1: self-reciprocity.  When a letter x was encoded to y and the next call
\* on the same engine encodes y, that call returns x.
C1_SelfReciprocal ==
    (AboutToReturn /\ last_call.known /\ Len(last_call.text) = 1
        /\ a_string = last_call.result)
    => encoded = last_call.text

C1_Witness ==
    /\ AboutToReturn /\ last_call.known /\ Len(last_call.text) = 1
    /\ a_string = last_call.result
    /\ Len(drum) = 4
    /\ Len(plugboard.plug_leads) = 3
    /\ last_call.text = <<"K">>

\* the drum as it stood before character k (1-based) of the running call
DrumBeforeChar(k) ==
    encode_loop([drum |-> last_op.drum, tnr |-> third_notch_initial(last_op.drum),
                 encoded |-> << >>, exc |-> "none", rot |-> <<0, 0, 0, FALSE>>],
                plugboard, reflector, SubSeq(a_string, 1, k - 1), 1).drum

\* the rotor shows its notch letter: one more step puts it on its notch
ShowsNotchLetter(r) ==
    notch(lower(r.rotor_type)) # 0 /\ r.notch - 1 = Idx0(wiring, At0(r.label, 0))

\* on character k rotor 0 steps onto its notch and the carry brings rotor 1
\* to its notch letter
CarryOntoNotchLetter(k) ==
    LET before == DrumBeforeChar(k)
        r0 == rotate_rotor(before[1], -1)
        r1 == rotate_rotor(before[2], -1)
    IN /\ notch(lower(r0.rotor_type)) # 0
       /\ r0.notch = Idx0(wiring, At0(r0.label, 0))
       /\ ShowsNotchLetter(r1)

\* C2: the double step.  In a 3-rotor engine with notched rotors in slots 0
\* and 1, when on character k the carry of rotor 0 brings rotor 1 to its
\* notch letter, rotor 1 steps once on character k and once on character k+1.
C2_DoubleStep ==
    (pc = "loop" /\ Len(drum) = 3)
    => \A k \in 1..(Len(steps) - 1) :
           CarryOntoNotchLetter(k) => (steps[k][2] = 1 /\ steps[k + 1][2] = 1)

\* C3: reset determinism.  When encode_sequence returns every rotor is as
\* constructed; a text encoded twice in a row gives the same result, which
\* is also the result of a newly built engine with the same settings.
C3_ResetDeterminism ==
    /\ Returned => drum = constructed(drum)
    /\ (AboutToReturn /\ last_call.known /\ last_call.text = a_string)
           => encoded = last_call.result
    /\ AboutToReturn
           => encoded = encode_sequence(constructed(drum), plugboard, reflector, a_string).encoded

C3_Witness ==
    /\ AboutToReturn /\ last_call.known /\ last_call.text = a_string
    /\ Len(a_string) = MaxLen
    /\ \E n \in 1..Len(drum) : drum[n].ring_setting > 1 /\ drum[n].notch # 0

\* RotorData.notch gives the rotor no notch
Notchless(r) == notch(lower(r.rotor_type)) = 0

\* C7: a notchless rotor never carries.  With a notchless rotor in slot 0
\* rotor 1 is never rotated during encode_sequence, and with a notchless
\* rotor in slot 1 rotor 2 is never rotated.
C7_NotchlessNeverCarries ==
    (pc = "loop" /\ Len(drum) >= 3)
    => /\ Notchless(drum[1])
            => /\ \A k \in 1..Len(steps) : steps[k][2] = 0
               /\ drum[2] = last_op.drum[2]
       /\ Notchless(drum[2])
            => /\ \A k \in 1..Len(steps) : steps[k][3] = 0
               /\ drum[3] = last_op.drum[3]

C7_Witness ==
    /\ pc = "loop" /\ Len(steps) = MaxLen
    /\ ~ Notchless(drum[1]) /\ Notchless(drum[2])
    /\ steps[1][2] = 1

\* C8: encode_sequence on fewer than 3 rotors raises MissingRotors (and only
\* then), with no rotor stepped, no character encoded and the drum as it was.
C8_MissingRotors ==
    /\ (last_op.op = "encode_sequence" /\ Len(last_op.drum) < 3)
           => /\ raised = "MissingRotors"
              /\ pc = "idle"
              /\ drum = last_op.drum
              /\ steps = << >>
              /\ encoded = << >>
    /\ raised = "MissingRotors"
           => (last_op.op = "encode_sequence" /\ Len(last_op.drum) < 3)

C8_Witness ==
    raised = "MissingRotors" /\ Len(drum) = 2 /\ Len(last_op.arg) = MaxLen

\* C9: the drum never holds more than 4 rotors.  add_rotor on fewer than 4
\* rotors appends its rotor; on 4 rotors it raises EnigmaDrumFull and leaves
\* the drum as it was.
C9_DrumAtMostFour ==
    /\ Len(drum) <= 4
    /\ last_op.op = "add_rotor"
           => IF Len(last_op.drum) < 4
              THEN drum = Append(last_op.drum, last_op.arg) /\ raised = "none"
              ELSE drum = last_op.drum /\ raised = "EnigmaDrumFull"

C9_Witness ==
    raised = "EnigmaDrumFull" /\ Len(drum) = 4 /\ last_op.op = "add_rotor"

----------------------------------------------------------------------------
(* A plugboard on its own: Plugboard.add called again and again            *)

EightLeads ==
    << <<"A", "B">>, <<"C", "D">>, <<"E", "F">>, <<"G", "H">>,
       <<"I", "J">>, <<"K", "L">>, <<"M", "N">>, <<"O", "P">> >>

\* the plugboards the calls start from: none, eight and nine leads connected
PlugboardStarts ==
    {Plugboard,
     plugboard_of(Plugboard, EightLeads, 1),
     plugboard_of(Plugboard, Append(EightLeads, <<"Y", "Z">>), 1)}

\* the strings the leads are built from; "ac" and "RS" share a letter with
\* "AB" and "QR"
LeadChoices == {<<"A", "B">>, <<"a", "c">>, <<"Q", "R">>, <<"R", "S">>, <<"U", "V">>}

InitPlug ==
    /\ drum = << >>
    /\ plugboard \in PlugboardStarts
    /\ reflector = Reflector("B")
    /\ pc = "idle"
    /\ a_string = << >>
    /\ encoded = << >>
    /\ third_notch_rotation = FALSE
    /\ raised = "none"
    /\ last_op = NoOp
    /\ last_call = NoCall
    /\ steps = << >>
    /\ NoPlugHistory
    /\ NoBreaker

\* Plugboard.add(PlugLead(mapping))
PlugboardAdd(mapping) ==
    LET plug_lead == PlugLead(mapping)
        out == Plugboard_add(plugboard, plug_lead)
    IN /\ plugboard' = out.pb
       /\ raised' = out.exc
       /\ last_add' = [known |-> TRUE, before |-> plugboard, lead |-> plug_lead]
       /\ UNCHANGED <<drum, reflector, the_lead, unit_call, call_vars, breaker_vars>>

NextPlug == \E mapping \in LeadChoices : PlugboardAdd(mapping)

SpecPlug == InitPlug /\ [][NextPlug]_vars

----------------------------------------------------------------------------
(* Claims on the plugboard                                                 *)

\* no stored lead of the plugboard holds a letter of the lead
LettersUnused(pb, lead) ==
    \A k \in 1..Len(pb.plug_leads) : pb.plug_leads[k] \cap lead = {}

\* C10: Plugboard.add inserts the lead if and only if none of its letters
\* belongs to a stored lead and fewer than 10 leads are stored; in every
\* other case the call raises NoPlugsAvailableException.
C10_AddOrRaise ==
    last_add.known
    => IF LettersUnused(last_add.before, last_add.lead) /\ Len(last_add.before.plug_leads) < 10
       THEN /\ plugboard.plug_leads = Append(last_add.before.plug_leads, last_add.lead)
            /\ raised = "none"
       ELSE /\ plugboard = last_add.before
            /\ raised = "NoPlugsAvailableException"

\* C11: the plugboard invariant.  After any sequence of Plugboard.add calls
\* with two-letter leads no letter belongs to two stored leads, at most 10
\* leads are stored, and an add that raises leaves plug_leads and
\* plugs_in_use as they were.
C11_PlugboardInvariant ==
    /\ \A i, j \in 1..Len(plugboard.plug_leads) :
           i # j => plugboard.plug_leads[i] \cap plugboard.plug_leads[j] = {}
    /\ Len(plugboard.plug_leads) <= 10
    /\ (last_add.known /\ raised # "none") => plugboard = last_add.before

C11_Witness ==
    /\ last_add.known
    /\ raised = "NoPlugsAvailableException"
    /\ Len(plugboard.plug_leads) = 10
    /\ \E k \in 1..Len(plugboard.plug_leads) : plugboard.plug_leads[k] \cap last_add.lead # {}

----------------------------------------------------------------------------
(* CodeBreaker.  A Python str is the sequence of its characters, except    *)
(* the names of rotors and reflectors.  A value that may be None is a      *)
(* sequence of length 0 (None) or 1 (the value): the fields of data.       *)

None == << >>

Some(v) == <<v>>

the(x) == x[1]

\* the keys of the data dict in the order `for element in data` visits them
data_keys ==
    <<"code", "crib", "rotors", "reflector", "ring_settings", "starting_positions", "plugboard">>

digits == <<"0", "1", "2", "3", "4", "5", "6", "7", "8", "9">>

\* int() on a string of decimal digits
RECURSIVE int_from(_, _, _)
int_from(s, k, n) ==
    IF k > Len(s) THEN n ELSE int_from(s, k + 1, 10 * n + Idx0(digits, s[k]))

int(s) == int_from(s, 1, 0)

\* set_missing_information, lines 44-47: the plugs of fewer than 2 letters
RECURSIVE partial_plugs_from(_, _, _)
partial_plugs_from(plugs, k, missing_info) ==
    IF k > Len(plugs) THEN missing_info
    ELSE partial_plugs_from(plugs, k + 1,
             IF Len(plugs[k]) < 2
             THEN missing_info \o << <<"plug", plugs[k]>>, <<"plugboard">> >>
             ELSE missing_info)

\* set_missing_information, lines 40-47.  An element of missing_info is
\* <<name>> for the str name and <<"plug", p>> for the dict {'plug': p}
RECURSIVE missing_info_from(_, _, _)
missing_info_from(d, k, missing_info) ==
    IF k > Len(data_keys) THEN missing_info
    ELSE missing_info_from(d, k + 1,
             IF d[data_keys[k]] = None
             THEN Append(missing_info, <<data_keys[k]>>)
             ELSE IF data_keys[k] = "plugboard"
                  THEN partial_plugs_from(the(d.plugboard), 1, missing_info)
                  ELSE missing_info)

set_missing_information(d) == missing_info_from(d, 1, << >>)

\* name in self.missing_information
is_missing(missing_info, name) == contains(missing_info, <<name>>)

setup_starting_rotors(d, missing_info) ==
    IF is_missing(missing_info, "rotors")
    THEN [d EXCEPT !.rotors = Some(<<"I", "II", "III">>)]
    ELSE d

setup_starting_position(d, missing_info) ==
    IF is_missing(missing_info, "starting_positions")
    THEN [d EXCEPT !.starting_positions = Some(<<"A", "A", "A">>)]
    ELSE d

setup_ring_setting(d, missing_info) ==
    IF is_missing(missing_info, "ring_settings")
    THEN [d EXCEPT !.ring_settings = Some(<< <<"0", "1">>, <<"0", "1">>, <<"0", "1">> >>)]
    ELSE d

\* setup_rotors: the loop from Python index k - 1 down to 0
RECURSIVE setup_rotors_from(_, _, _)
setup_rotors_from(rotor_info, k, rotors) ==
    IF k < 1 THEN rotors
    ELSE CHOOSE out \in
             {setup_rotors_from(rotor_info, k - 1, next) : next \in
                 {Append(rotors, Rotor(the(rotor_info.rotors)[k],
                                       the(rotor_info.starting_positions)[k],
                                       int(the(rotor_info.ring_settings)[k])))}} : TRUE

setup_rotors(rotor_info) ==
    setup_rotors_from(rotor_info, Len(the(rotor_info.rotors)), << >>)

\* Plugboard.add for each plug of a list, up to the first exception
RECURSIVE add_plugs(_, _, _)
add_plugs(pb, plugs, k) ==
    IF k > Len(plugs) THEN [pb |-> pb, exc |-> "none"]
    ELSE With(Plugboard_add(pb, PlugLead(plugs[k])), LAMBDA out :
             IF out.exc # "none" THEN out ELSE add_plugs(out.pb, plugs, k + 1))

\* setup_plugboard: the plugboard returned and the exception raised
setup_plugboard(d, missing_info) ==
    IF ~ is_missing(missing_info, "plugboard")
    THEN With(the(d.plugboard), LAMBDA plugs : add_plugs(Plugboard, plugs, 1))
    ELSE [pb |-> Plugboard, exc |-> "none"]

setup_reflector(d, missing_info) ==
    IF ~ is_missing(missing_info, "reflector")
    THEN Reflector(the(d.reflector))
    ELSE Reflector("b")

\* setup_enigma, lines 101-103: add_rotor for each new rotor
RECURSIVE add_rotors(_, _, _)
add_rotors(d, new_rotors, k) ==
    IF k > Len(new_rotors) THEN [drum |-> d, exc |-> "none"]
    ELSE IF drum_full(d) THEN [drum |-> d, exc |-> "EnigmaDrumFull"]
         ELSE With(Append(d, new_rotors[k]), LAMBDA next :
                  add_rotors(next, new_rotors, k + 1))

\* setup_enigma: the drum of the new Enigma; its plugboard and reflector
\* are self.plugboard and self.reflector
setup_enigma(d) ==
    With(setup_rotors(d), LAMBDA new_rotors : add_rotors(<< >>, new_rotors, 1))

change_starting_position(d, new_position) ==
    [d EXCEPT !.starting_positions = Some(new_position)]

\* self.reflectors
reflectors == <<"a", "b", "c">>

\* the number of letters of the alphabet the starting positions are drawn from
NumPositionLetters == 3

\* the letters of line 156, cut to the first NumPositionLetters
position_letters == SubSeq(wiring, 1, NumPositionLetters)

\* mutant: the first letter changes fastest
starting_positions_first_letter_fastest ==
    LET n == Len(position_letters)
    IN [k \in 1..(n * n * n) |->
            <<position_letters[((k - 1) % n) + 1],
              position_letters[(((k - 1) \div n) % n) + 1],
              position_letters[((k - 1) \div (n * n)) + 1]>>]

\* get_possible_starting_positions: product(letters, repeat=3) as a list,
\* the last letter changing fastest
get_possible_starting_positions ==
    LET n == Len(position_letters)
    IN [k \in 1..(n * n * n) |->
            <<position_letters[((k - 1) \div (n * n)) + 1],
              position_letters[(((k - 1) \div n) % n) + 1],
              position_letters[((k - 1) % n) + 1]>>]

\* self.starting_positions
starting_positions == get_possible_starting_positions

\* the orders in which list(a set) may give the letters: Python fixes none
SetOrders == {"ascending", "descending"}

RECURSIVE reversed(_)
reversed(s) == IF s = << >> THEN << >> ELSE Append(reversed(Tail(s)), Head(s))

\* get_plugs_combinations, lines 175-183: the letters no plug of the data
\* names, in the order the set gives them
not_used_letters(d, order) ==
    LET plugs == the(d.plugboard)
        all_plugs == UNION {{plugs[k][j] : j \in 1..Len(plugs[k])} : k \in 1..Len(plugs)}
        difference == (all_plugs \ Letters) \cup (Letters \ all_plugs)
    IN IF order = "ascending" THEN letters_of(difference) ELSE reversed(letters_of(difference))

\* lines 185-188: the keys of the dict partial_plugs, in insertion order
RECURSIVE partial_plug_keys(_, _, _)
partial_plug_keys(missing_info, k, keys) ==
    IF k > Len(missing_info) THEN keys
    ELSE partial_plug_keys(missing_info, k + 1,
             IF Len(missing_info[k]) = 2 /\ ~ contains(keys, missing_info[k][2])
             THEN Append(keys, missing_info[k][2])
             ELSE keys)

\* lines 190-195: every unused letter followed by every character of the
\* key, from the m-th such string on
RECURSIVE completions_from(_, _, _, _)
completions_from(not_used, key, m, list) ==
    IF m > Len(not_used) * Len(key) THEN list
    ELSE CHOOSE out \in
             {completions_from(not_used, key, m + 1, next) : next \in
                 {Append(list, <<not_used[((m - 1) \div Len(key)) + 1],
                                 key[((m - 1) % Len(key)) + 1]>>)}} : TRUE

completions(not_used, key) == completions_from(not_used, key, 1, << >>)

\* the tuples that put an element of heads before a tuple of rest, from the
\* m-th on
RECURSIVE product_from(_, _, _, _)
product_from(heads, rest, m, list) ==
    IF m > Len(heads) * Len(rest) THEN list
    ELSE CHOOSE out \in
             {product_from(heads, rest, m + 1, next) : next \in
                 {Append(list, <<heads[((m - 1) \div Len(rest)) + 1]>>
                                   \o rest[((m - 1) % Len(rest)) + 1])}} : TRUE

\* itertools.product(*lists) as a list of tuples, the last list changing fastest
RECURSIVE product(_)
product(lists) ==
    IF lists = << >> THEN << << >> >>
    ELSE CHOOSE out \in
             {product_from(Head(lists), rest, 1, << >>) : rest \in {product(Tail(lists))}} : TRUE

\* lines 190-203: the list of completions of each key
RECURSIVE partial_plugs_of(_, _, _, _)
partial_plugs_of(not_used, keys, k, lists) ==
    IF k > Len(keys) THEN lists
    ELSE CHOOSE out \in
             {partial_plugs_of(not_used, keys, k + 1, next) : next \in
                 {Append(lists, completions(not_used, keys[k]))}} : TRUE

get_plugs_combinations(d, missing_info, order) ==
    CHOOSE out \in
        {product(partial_plugs_of(not_used, keys, 1, << >>)) :
             not_used \in {not_used_letters(d, order)},
             keys \in {partial_plug_keys(missing_info, 1, << >>)}} : TRUE

\* change_plugboard: the new plugboard and the exception raised
change_plugboard(d, new_plugs) ==
    With(SelectSeq(the(d.plugboard), LAMBDA plug : Len(plug) > 1) \o new_plugs,
         LAMBDA plugs : add_plugs(Plugboard, plugs, 1))

\* the number of selections of 4 wiring pairs, from the first of
\* possible_wiring_changes on, whose elements of reflector_combinations are
\* built
NumSelections == 5

\* combinations(wiring, 4): the selections of 4 of the 13 wiring pairs, each
\* the increasing indices of its pairs
all_selections == {sel \in [1..4 -> 1..13] : \A k \in 1..3 : sel[k] < sel[k + 1]}

\* the order in which combinations gives the selections
selection_before(u, v) ==
    \E k \in 1..4 : u[k] < v[k] /\ \A j \in 1..(k - 1) : u[j] = v[j]

\* set_reflector_combinations, line 231: possible_wiring_changes, cut to its
\* first NumSelections elements
wiring_selections ==
    {sel \in all_selections :
        Cardinality({u \in all_selections : selection_before(u, sel)}) < NumSelections}

\* permutations(i[0], len(i[1])), each as the positions it takes its letters from
input_permutations ==
    {perm \in [1..4 -> 1..4] : \A j, k \in 1..4 : j # k => perm[j] # perm[k]}

\* set_reflector_combinations, lines 241-257: the element of
\* reflector_combinations made from one selection and one permutation of its
\* input letters
reflector_combination(refl, sel, perm) ==
    With(get_wiring_pairs(refl), LAMBDA pairs :
        <<<<pairs[sel[perm[1]]][1], pairs[sel[1]][2]>>,
          <<pairs[sel[perm[2]]][1], pairs[sel[2]][2]>>,
          <<pairs[sel[perm[3]]][1], pairs[sel[3]][2]>>,
          <<pairs[sel[perm[4]]][1], pairs[sel[4]][2]>>>>)

\* the characters of the strings of a list, in order
RECURSIVE letters_in(_)
letters_in(list) == IF list = << >> THEN << >> ELSE Head(list) \o letters_in(Tail(list))

\* rewire_reflector, lines 270-273, from pair i on
RECURSIVE rewire_from(_, _, _, _)
rewire_from(pairs, i, new, used) ==
    IF i > Len(pairs) THEN new
    ELSE IF ~ \E k \in 1..Len(pairs[i]) : contains(used, pairs[i][k])
         THEN With(Append(new, pairs[i]), LAMBDA new1 :
              With(used \o pairs[i], LAMBDA used1 : rewire_from(pairs, i + 1, new1, used1)))
         ELSE rewire_from(pairs, i + 1, new, used)

\* mutant: every catalog pair is appended, the used letters are not looked at
rewire_reflector_keeping_all(refl, new_wiring) == new_wiring \o get_wiring_pairs(refl)

\* rewire_reflector: the list returned
rewire_reflector(refl, new_wiring) ==
    With(get_wiring_pairs(refl), LAMBDA pairs :
        With(letters_in(new_wiring), LAMBDA used : rewire_from(pairs, 1, new_wiring, used)))

\* crib in cypher
in_string(crib, text) ==
    \E k \in 0..(Len(text) - Len(crib)) : SubSeq(text, k + 1, k + Len(crib)) = crib

\* CodeBreaker.__init__: the fields of the new object.  order is the order
\* in which the set of unused letters is listed
CodeBreaker(d, order) ==
    CHOOSE cb \in UNION {
        {[missing_information |-> missing_info,
          data |-> d1,
          plugboard |-> setup_plugboard(d1, missing_info).pb,
          reflector |-> setup_reflector(d1, missing_info),
          drum |-> setup_enigma(d1).drum,
          plug_combinations |->
              IF is_missing(missing_info, "plugboard")
              THEN get_plugs_combinations(d1, missing_info, order)
              ELSE << >>]
         : d1 \in {setup_ring_setting(
                       setup_starting_position(
                           setup_starting_rotors(d, missing_info), missing_info), missing_info)}}
        : missing_info \in {set_missing_information(d)}} : TRUE

\* CodeBreaker.encode counts its passes in i without end; only the reflector
\* and the starting position branches read i, and both leave the loop before
\* i reaches IterCap, from where on the model keeps i as it is
IterCap == Len(starting_positions) + 1

\* encode, lines 297-315: what the pass does when the crib is not in cypher
next_candidate ==
    LET stay == [data |-> data, reflector |-> reflector, plugboard |-> plugboard,
                 plug_combinations |-> plug_combinations, sp |-> sp,
                 setup |-> FALSE, broke |-> FALSE, exc |-> "none"]
    IN IF is_missing(missing_information, "reflector")
       THEN IF enc_i > 2
            THEN [stay EXCEPT !.broke = TRUE]
            ELSE [stay EXCEPT !.reflector = Reflector(At0(reflectors, enc_i)), !.setup = TRUE]
       ELSE IF is_missing(missing_information, "starting_positions")
       THEN IF enc_i >= Len(starting_positions)
            THEN [stay EXCEPT !.exc = "IndexError"]
            ELSE [stay EXCEPT !.data = change_starting_position(data, At0(starting_positions, enc_i)),
                              !.sp = At0(starting_positions, enc_i),
                              !.setup = TRUE]
       ELSE IF is_missing(missing_information, "plugboard")
       THEN IF plug_combinations # << >>
            THEN LET plug == plug_combinations[Len(plug_combinations)]
                     popped == SubSeq(plug_combinations, 1, Len(plug_combinations) - 1)
                 IN IF Len(plug) < 2
                    THEN [stay EXCEPT !.plug_combinations = popped, !.exc = "IndexError"]
                    ELSE With(change_plugboard(data, <<plug[1], plug[2]>>), LAMBDA out :
                             IF out.exc # "none"
                             THEN [stay EXCEPT !.plug_combinations = popped, !.exc = out.exc]
                             ELSE [stay EXCEPT !.plug_combinations = popped,
                                               !.plugboard = out.pb,
                                               !.setup = TRUE])
            ELSE [stay EXCEPT !.broke = TRUE]
       ELSE stay

----------------------------------------------------------------------------
(* CodeBreaker.encode as a state machine: the call, and per pass of the    *)
(* loop the trial encoding (line 288) and the rest of the pass.            *)

\* the settings the configurations share
rotors_I_II_III == Some(<<"I", "II", "III">>)

rings_1_2_1 == Some(<< <<"0", "1">>, <<"0", "2">>, <<"0", "1">> >>)

two_plugs == << <<"A", "V">>, <<"X", "N">> >>

eight_plugs ==
    << <<"A", "V">>, <<"X", "N">>, <<"B", "C">>, <<"D", "E">>,
       <<"F", "G">>, <<"H", "I">>, <<"J", "K">>, <<"L", "M">> >>

no_crib == <<"Z", "Z", "Z", "Z">>

Config(code, crib, reflector_type, positions, plugs) ==
    [code |-> Some(code), crib |-> Some(crib), rotors |-> rotors_I_II_III,
     reflector |-> reflector_type, ring_settings |-> rings_1_2_1,
     starting_positions |-> positions, plugboard |-> Some(plugs)]

\* the configuration records: starting positions unknown (one matching
\* triple, several, none), reflector unknown (a match, none), two partial
\* plugs (a match, none), one partial plug, nothing unknown (a match, none)
DataChoices ==
    {Config(<<"O", "M", "F">>, <<"A", "N">>, Some("B"), None, two_plugs),
     Config(<<"B", "L", "W">>, <<"E">>, Some("B"), None, two_plugs),
     Config(<<"O", "M", "F">>, no_crib, Some("B"), None, two_plugs),
     Config(<<"N", "I", "Q">>, <<"H", "E", "Y">>, None, Some(<<"A", "B", "C">>), two_plugs),
     Config(<<"N", "I", "Q">>, no_crib, None, Some(<<"A", "B", "C">>), two_plugs),
     Config(<<"X", "G", "Q">>, <<"T", "O", "P">>, Some("B"), Some(<<"A", "B", "C">>),
            eight_plugs \o << <<"O">>, <<"P">> >>),
     Config(<<"X", "G", "Q">>, no_crib, Some("B"), Some(<<"A", "B", "C">>),
            eight_plugs \o << <<"O">>, <<"P">> >>),
     Config(<<"O", "M", "F">>, no_crib, Some("B"), Some(<<"A", "B", "C">>),
            two_plugs \o << <<"O">> >>),
     Config(<<"O", "M", "F">>, <<"A", "N">>, Some("B"), Some(<<"C", "A", "B">>), two_plugs),
     Config(<<"O", "M", "F">>, no_crib, Some("B"), Some(<<"C", "A", "B">>), two_plugs)}

\* a CodeBreaker has been built from one of the records
InitBreak ==
    /\ \E d \in DataChoices : \E order \in SetOrders : \E cb \in {CodeBreaker(d, order)} :
              /\ data = cb.data
              /\ missing_information = cb.missing_information
              /\ plug_combinations = cb.plug_combinations
              /\ drum = cb.drum
              /\ plugboard = cb.plugboard
              /\ reflector = cb.reflector
    /\ cb_pc = "built"
    /\ enc_i = 0
    /\ sp = << >>
    /\ cypher = << >>
    /\ result = << >>
    /\ tested = << >>
    /\ pc = "idle"
    /\ a_string = << >>
    /\ encoded = << >>
    /\ third_notch_rotation = FALSE
    /\ raised = "none"
    /\ last_op = NoOp
    /\ last_call = NoCall
    /\ steps = << >>
    /\ NoPlugHistory

\* encode, lines 283-286
BreakerEncode ==
    /\ cb_pc = "built"
    /\ cb_pc' = "trial"
    /\ enc_i' = 0
    /\ result' = << >>
    /\ sp' = the(data.starting_positions)
    /\ UNCHANGED <<drum, plugboard, reflector, raised, call_vars, plug_vars>>
    /\ UNCHANGED <<data, missing_information, plug_combinations, cypher, tested>>

\* the settings of the engine: per rotor of the drum its type, initial
\* position and ring setting, the reflector type and the leads
RECURSIVE rotor_settings(_, _)
rotor_settings(d, n) ==
    IF n > Len(d) THEN << >>
    ELSE <<<<d[n].rotor_type, d[n].initial_position, d[n].ring_setting>>>>
             \o rotor_settings(d, n + 1)

engine_settings ==
    [rotors |-> rotor_settings(drum, 1), reflector |-> reflector.r_type,
     plug_leads |-> plugboard.plug_leads]

\* encode, line 288: the trial encoding of the code.  The history is kept
\* for the passes that i counts
BreakerTrial ==
    /\ cb_pc = "trial"
    /\ tested' = IF enc_i < IterCap THEN Append(tested, engine_settings) ELSE tested
    /\ \E out \in {encode_sequence(drum, plugboard, reflector, the(data.code))} :
          /\ drum' = out.drum
          /\ IF out.exc # "none"
             THEN /\ raised' = out.exc
                  /\ cb_pc' = "raised"
                  /\ UNCHANGED cypher
             ELSE /\ cypher' = out.encoded
                  /\ cb_pc' = "advance"
                  /\ UNCHANGED raised
    /\ UNCHANGED <<plugboard, reflector, call_vars, plug_vars>>
    /\ UNCHANGED <<data, missing_information, plug_combinations, enc_i, sp, result>>

\* encode, lines 290-317: the crib test, the next candidate, i += 1, and
\* the return when the loop is left.  The found message is kept as its
\* four parts, the plugs settings as the leads of the plugboard
BreakerAdvance ==
    /\ cb_pc = "advance"
    /\ IF in_string(the(data.crib), cypher)
       THEN /\ result' = <<cypher, reflector.r_type, sp, plugboard.plug_leads>>
            /\ enc_i' = IF enc_i < IterCap THEN enc_i + 1 ELSE enc_i
            /\ cb_pc' = "returned"
            /\ UNCHANGED <<drum, plugboard, reflector, raised, data, plug_combinations, sp>>
       ELSE \E next \in {next_candidate} :
            \E enigma \in {IF next.setup THEN setup_enigma(next.data)
                           ELSE [drum |-> drum, exc |-> "none"]} :
            \E exc \in {IF next.exc # "none" THEN next.exc ELSE enigma.exc} :
               /\ data' = next.data
               /\ reflector' = next.reflector
               /\ plugboard' = next.plugboard
               /\ plug_combinations' = next.plug_combinations
               /\ sp' = next.sp
               /\ drum' = enigma.drum
               /\ raised' = exc
               /\ cb_pc' = IF exc # "none" THEN "raised"
                           ELSE IF next.broke THEN "returned" ELSE "trial"
               /\ enc_i' = IF exc # "none" \/ next.broke \/ enc_i >= IterCap
                           THEN enc_i ELSE enc_i + 1
               /\ UNCHANGED result
    /\ UNCHANGED <<call_vars, plug_vars, missing_information, cypher, tested>>

NextBreak ==
    \/ BreakerEncode
    \/ BreakerTrial
    \/ BreakerAdvance

\* the program runs on until encode returns or raises
SpecBreak == InitBreak /\ [][NextBreak]_vars /\ WF_vars(NextBreak)

----------------------------------------------------------------------------
(* Claims on CodeBreaker.encode                                            *)

\* encode has returned a found message
Found == cb_pc = "returned" /\ result # << >>

\* the starting positions the rotors of the engine were built with, in the
\* order of data['starting_positions']
EnginePositions ==
    <<drum[3].initial_position, drum[2].initial_position, drum[1].initial_position>>

Triples ==
    LET letters == {position_letters[k] : k \in 1..Len(position_letters)}
    IN {<<a, b, c>> : a \in letters, b \in letters, c \in letters}

\* t comes before u in the lexicographic order of the triples
LexBefore(t, u) ==
    \E k \in 1..3 : /\ \A j \in 1..(k - 1) : t[j] = u[j]
                    /\ Idx0(wiring, t[k]) < Idx0(wiring, u[k])

\* the decoding of the code by the engine of the data with starting positions t
DecodingAt(t) ==
    encode_sequence(setup_enigma(change_starting_position(data, t)).drum,
                    plugboard, reflector, the(data.code)).encoded

MatchesAt(t) == in_string(the(data.crib), DecodingAt(t))

OnlyStartingPositionsUnknown == missing_information = << <<"starting_positions">> >>

\* C4: the starting-position search.  With only starting_positions unknown
\* the i-th candidate tested is the i-th triple in lexicographic order; the
\* found message names the triple the matching engine was built with, that
\* triple decodes the code to a text holding the crib, and no triple before
\* it in lexicographic order does; the search ends without a found message
\* only when no triple does.
C4_StartingPositionSearch ==
    OnlyStartingPositionsUnknown
    => /\ (cb_pc \in {"trial", "advance"} /\ enc_i >= 1)
              => Cardinality({u \in Triples : LexBefore(u, EnginePositions)}) = enc_i - 1
       /\ Found
              => /\ result[3] = EnginePositions
                 /\ result[1] = DecodingAt(result[3])
                 /\ MatchesAt(result[3])
                 /\ \A u \in Triples : LexBefore(u, result[3]) => ~ MatchesAt(u)
       /\ (cb_pc \in {"returned", "raised"} /\ ~ Found)
              => \A u \in Triples : ~ MatchesAt(u)

C4_Witness ==
    /\ OnlyStartingPositionsUnknown
    /\ Found
    /\ result[3] # <<"A", "A", "A">>
    /\ \E u \in Triples : LexBefore(result[3], u) /\ MatchesAt(u)

\* no candidate is left to test
CandidatesExhausted ==
    IF is_missing(missing_information, "reflector") THEN enc_i > 2
    ELSE IF is_missing(missing_information, "starting_positions")
         THEN enc_i >= Len(starting_positions)
    ELSE IF is_missing(missing_information, "plugboard") THEN plug_combinations = << >>
    ELSE FALSE

\* C5: exhaustion is a value.  When encode ends with every candidate tested
\* and no crib match, it has returned and has raised no exception.
C5_ExhaustionIsAValue ==
    (cb_pc \in {"returned", "raised"} /\ ~ Found /\ CandidatesExhausted)
    => (cb_pc = "returned" /\ raised = "none")

\* C6: termination.  CodeBreaker.encode comes to an end for every
\* configuration record.
C6_EncodeTerminates == <>(cb_pc \in {"returned", "raised"})

\* exactly one plug of the record is a single letter and nothing else is
\* unknown
OnePartialPlug ==
    Len(missing_information) = 2
    /\ Len(missing_information[1]) = 2
    /\ missing_information[2] = <<"plugboard">>

\* the letter of the partial plug
PartialLetter == missing_information[1][2][1]

\* the leads of the plugs the record gives in full
KnownLeads ==
    {PlugLead(the(data.plugboard)[k]) :
        k \in {j \in 1..Len(the(data.plugboard)) : Len(the(data.plugboard)[j]) = 2}}

\* the letters no plug entry of the record uses
AdmissibleLetters ==
    Letters \ UNION {{the(data.plugboard)[k][j] : j \in 1..Len(the(data.plugboard)[k])} :
                         k \in 1..Len(the(data.plugboard))}

\* the leads of the k-th trial, as a set
TestedLeads(k) == {tested[k].plug_leads[j] : j \in 1..Len(tested[k].plug_leads)}

\* C13: the search with one partial plug.  Every trial after the first uses
\* the known leads and the lead of the partial letter with a letter no plug
\* entry uses, and encode returns the exhaustion result only after it has
\* tested each such completion.
C13_OnePartialPlugSearch ==
    OnePartialPlug
    => /\ \A k \in 2..Len(tested) :
              \E x \in AdmissibleLetters : TestedLeads(k) = KnownLeads \cup {{PartialLetter, x}}
       /\ (cb_pc \in {"returned", "raised"} /\ ~ Found)
              => /\ cb_pc = "returned"
                 /\ \A x \in AdmissibleLetters :
                        \E k \in 1..Len(tested) : {PartialLetter, x} \in TestedLeads(k)

\* exactly two plugs of the record are single letters and nothing else is
\* unknown
TwoPartialPlugs ==
    Len(missing_information) = 4
    /\ Len(missing_information[1]) = 2
    /\ missing_information[2] = <<"plugboard">>
    /\ Len(missing_information[3]) = 2
    /\ missing_information[4] = <<"plugboard">>

\* the letter of the second partial plug
SecondPartialLetter == missing_information[3][2][1]

\* C22: the search with two partial plugs.  Every trial after the first uses
\* the known leads and one lead for each partial letter, the two completed
\* leads disjoint from each other and from the known leads, and encode
\* returns the exhaustion result only after it has tested the full joint
\* product of such completions.
C22_TwoPartialPlugsSearch ==
    TwoPartialPlugs
    => /\ \A k \in 2..Len(tested) :
              \E x, y \in AdmissibleLetters :
                  /\ x # y
                  /\ TestedLeads(k) = KnownLeads \cup {{PartialLetter, x}, {SecondPartialLetter, y}}
       /\ (cb_pc \in {"returned", "raised"} /\ ~ Found)
              => /\ cb_pc = "returned"
                 /\ \A x, y \in AdmissibleLetters :
                        x # y => \E k \in 1..Len(tested) :
                                     /\ {PartialLetter, x} \in TestedLeads(k)
                                     /\ {SecondPartialLetter, y} \in TestedLeads(k)

OnlyReflectorUnknown == missing_information = << <<"reflector">> >>

\* no settings were encoded twice
TestedOnce == \A j, k \in 1..Len(tested) : j # k => tested[j] # tested[k]

\* C14: each candidate is tried at most once.  During one run of encode no
\* settings are encoded and compared with the crib twice: a search for the
\* reflector makes at most 3 trial encodings, a search for the starting
\* positions at most as many as there are triples.
C14_EachCandidateOnce ==
    /\ OnlyReflectorUnknown => (TestedOnce /\ Len(tested) <= Len(reflectors))
    /\ OnlyStartingPositionsUnknown => (TestedOnce /\ Len(tested) <= Len(starting_positions))

----------------------------------------------------------------------------
(* A reflector on its own: Reflector.encode called letter after letter, and *)
(* the reflector rewired as encode_part5 rewires it                         *)

CatalogReflectors == {Reflector("a"), Reflector("b"), Reflector("c")}

\* a reflector has been built from its catalog sequence
InitReflect ==
    /\ drum = << >>
    /\ plugboard = Plugboard
    /\ reflector \in CatalogReflectors
    /\ pc = "idle"
    /\ a_string = << >>
    /\ encoded = << >>
    /\ third_notch_rotation = FALSE
    /\ raised = "none"
    /\ last_op = NoOp
    /\ last_call = NoCall
    /\ steps = << >>
    /\ NoPlugHistory
    /\ NoBreaker

\* Reflector.encode(character); prev keeps the call before it
ReflectorEncode(character) ==
    /\ unit_call' = [op |-> "Reflector.encode", arg |-> <<character>>,
                     out |-> <<Reflector_encode(reflector, character)>>,
                     prev |-> IF unit_call.op = "Reflector.encode"
                              THEN unit_call.arg \o unit_call.out ELSE << >>]
    /\ UNCHANGED <<drum, plugboard, reflector, raised, last_add, the_lead, call_vars, breaker_vars>>

NextReflect == \E character \in Letters : ReflectorEncode(character)

SpecReflect == InitReflect /\ [][NextReflect]_vars

\* encode_part5, lines 373-376: the reflector replaced by one of its type
\* with the wiring rewire_reflector gives for an element of
\* reflector_combinations
RewireReflector(sel, perm) ==
    /\ \E new_wiring \in {reflector_combination(reflector, sel, perm)} :
       \E rewired \in {rewire_reflector(reflector, new_wiring)} :
          /\ reflector' = Reflector_wired(reflector.r_type, rewired)
          /\ unit_call' = [op |-> "rewire_reflector", arg |-> new_wiring, out |-> rewired,
                           prev |-> << >>]
    /\ UNCHANGED <<drum, plugboard, raised, last_add, the_lead, call_vars, breaker_vars>>

NextRewire == \E sel \in wiring_selections : \E perm \in input_permutations : RewireReflector(sel, perm)

SpecRewire == InitReflect /\ [][NextRewire]_vars

----------------------------------------------------------------------------
(* Claims on the reflector                                                 *)

\* the leads are pairs of two letters, no letter is in two of them, and
\* together they hold the 26 letters
CompleteWiring(leads) ==
    /\ Len(leads) = 13
    /\ \A k \in 1..Len(leads) : Cardinality(leads[k]) = 2
    /\ \A j, k \in 1..Len(leads) : j # k => leads[j] \cap leads[k] = {}
    /\ UNION {leads[k] : k \in 1..Len(leads)} = Letters

\* encode on the reflector sends every letter to the index of another
\* letter, and that letter back to the index of the first
Involution(refl) ==
    \A x \in Letters :
        \E y \in {Reflector_encode(refl, x)} :
            /\ y \in 0..25
            /\ At0(wiring, y) # x
            /\ Reflector_encode(refl, At0(wiring, y)) = Idx0(wiring, x)

\* C12: the reflector involution.  On a catalog reflector built without a
\* wiring, encode(x) returns the index of a letter y other than x and
\* encode(y) returns the index of x, in the calls made as well as for every
\* letter; the wiring is 13 disjoint pairs that hold the 26 letters.
C12_ReflectorInvolution ==
    /\ CompleteWiring(reflector.wiring)
    /\ Involution(reflector)
    /\ unit_call.op = "Reflector.encode"
           => /\ unit_call.out[1] \in 0..25
              /\ At0(wiring, unit_call.out[1]) # unit_call.arg[1]
              /\ (unit_call.prev # << >> /\ unit_call.arg[1] = At0(wiring, unit_call.prev[2]))
                     => At0(wiring, unit_call.out[1]) = unit_call.prev[1]

C12_Witness ==
    /\ unit_call.op = "Reflector.encode"
    /\ unit_call.prev # << >>
    /\ unit_call.arg[1] = At0(wiring, unit_call.prev[2])
    /\ unit_call.prev[1] = "Z"
    /\ reflector.r_type = "c"

\* C15: rewiring gives a complete wiring.  For every element of
\* reflector_combinations, rewire_reflector returns 13 disjoint pairs that
\* hold the 26 letters: the 4 pairs of the element and the catalog pairs that
\* share no letter with them; the reflector built from the list is an
\* involution without a fixed point.
C15_RewiredWiringComplete ==
    unit_call.op = "rewire_reflector"
    => /\ CompleteWiring([k \in 1..Len(unit_call.out) |->
                             {unit_call.out[k][1], unit_call.out[k][2]}])
       /\ SubSeq(unit_call.out, 1, 4) = unit_call.arg
       /\ {unit_call.out[k] : k \in 5..Len(unit_call.out)}
              = {pair \in {get_wiring_pairs(reflector)[k] : k \in 1..13} :
                     \A j \in 1..4 : {pair[1], pair[2]} \cap
                                         {unit_call.arg[j][1], unit_call.arg[j][2]} = {}}
       /\ reflector.wiring = [k \in 1..13 |-> {unit_call.out[k][1], unit_call.out[k][2]}]
       /\ Involution(reflector)

C15_Witness ==
    /\ unit_call.op = "rewire_reflector"
    /\ Len(unit_call.out) = 13
    /\ \A k \in 1..4 : ~ contains(get_wiring_pairs(reflector), unit_call.arg[k])
    /\ reflector.r_type = "b"

----------------------------------------------------------------------------
(* A PlugLead on its own: built from a value, then encode called on it     *)

\* the values the leads are built from: strings of 0 to 3 characters, with
\* letters of either case and a digit, and lists of two letters
LeadStrings ==
    {<< >>, <<"A">>, <<"A", "B", "C">>, <<"A", "1">>, <<"1", "B">>, <<"1", "2">>,
     <<"A", "A">>, <<"a", "A">>, <<"b", "b">>, <<"A", "B">>, <<"a", "b">>, <<"Q", "R">>}

LeadLists == {<<"A", "B">>, <<"Q", "R">>}

LeadObjects ==
    {[lead_mapping |-> PlugLead_of(TRUE, mapping), is_str |-> TRUE, mapping |-> mapping] :
         mapping \in LeadStrings}
    \cup {[lead_mapping |-> PlugLead_of(FALSE, mapping), is_str |-> FALSE, mapping |-> mapping] :
              mapping \in LeadLists}

\* the characters encode is called on
LeadInputs == {"A", "B", "Q", "R", "Z", "a", "1"}

InitLead ==
    /\ drum = << >>
    /\ plugboard = Plugboard
    /\ reflector = Reflector("B")
    /\ pc = "idle"
    /\ a_string = << >>
    /\ encoded = << >>
    /\ third_notch_rotation = FALSE
    /\ raised = "none"
    /\ last_op = NoOp
    /\ last_call = NoCall
    /\ steps = << >>
    /\ last_add = NoAdd
    /\ the_lead \in LeadObjects
    /\ unit_call = NoUnitCall
    /\ NoBreaker

\* PlugLead.encode(character)
PlugLeadEncode(character) ==
    /\ \E out \in {PlugLead_encode(the_lead.lead_mapping, character)} :
          /\ raised' = IF out = "KeyError" THEN "KeyError" ELSE "none"
          /\ unit_call' = [op |-> "PlugLead.encode", arg |-> <<character>>,
                           out |-> IF out = "KeyError" THEN << >> ELSE <<out>>,
                           prev |-> << >>]
    /\ UNCHANGED <<drum, plugboard, reflector, last_add, the_lead, call_vars, breaker_vars>>

NextLead == \E character \in LeadInputs : PlugLeadEncode(character)

SpecLead == InitLead /\ [][NextLead]_vars

----------------------------------------------------------------------------
(* Claims on the PlugLead                                                  *)

\* the value is no pair of two different letters
Malformed(object) ==
    \/ ~ object.is_str
    \/ Len(object.mapping) # 2
    \/ \E k \in 1..Len(object.mapping) : ~ isalpha(object.mapping[k])
    \/ object.mapping[1] = object.mapping[2]

\* C16: a PlugLead built from a malformed pair is an empty mapping: encode
\* returns every character unchanged and raises nothing.
C16_MalformedLeadIsNoOp ==
    (Malformed(the_lead) /\ unit_call.op = "PlugLead.encode")
    => (raised = "none" /\ unit_call.out = unit_call.arg)

----------------------------------------------------------------------------
(* The engine over a revolution of rotor 0: every notched rotor type, start *)
(* position and ring setting in slot 0, encoding one text longer than a     *)
(* revolution                                                               *)

\* the length of the text
RevChars == 27

NotchedTypes == {"I", "II", "III", "IV", "V"}

RevDrums ==
    {<<Rotor(rotor_type, position, ring_setting), Rotor("II", "A", 1), Rotor("Gamma", "A", 1)>> :
         rotor_type \in NotchedTypes, position \in Letters, ring_setting \in 1..26}

RevText == [k \in 1..RevChars |-> "A"]

InitRev ==
    /\ drum \in RevDrums
    /\ plugboard = Plugboard
    /\ reflector = Reflector("B")
    /\ pc = "idle"
    /\ a_string = << >>
    /\ encoded = << >>
    /\ third_notch_rotation = FALSE
    /\ raised = "none"
    /\ last_op = NoOp
    /\ last_call = NoCall
    /\ steps = << >>
    /\ NoPlugHistory
    /\ NoBreaker

NextRev ==
    \/ EncodeBegin(RevText)
    \/ EncodeChar
    \/ EncodeReturn

SpecRev == InitRev /\ [][NextRev]_vars

\* C17: the carry of rotor 0 fires once per revolution.  With a notched
\* rotor in slot 0, whatever its ring setting and start position, its notch
\* index is within 1..26 and in every 26 consecutive characters the test of
\* line 36, which makes rotor 1 step, holds on exactly one.
C17_CarryOncePerRevolution ==
    (pc = "loop" /\ ~ Notchless(drum[1]))
    => /\ drum[1].notch \in 1..26
       /\ \A first \in 1..(Len(steps) - 25) :
              Cardinality({k \in first..(first + 25) : steps[k][4]}) = 1

----------------------------------------------------------------------------
(* The engine with every notched rotor type, start position and ring       *)
(* setting in slot 1                                                        *)

MidDrums ==
    {<<first, Rotor(rotor_type, position, ring_setting), Rotor("III", "A", 1)>> :
         first \in {Rotor("I", "A", 1), Rotor("III", "V", 2)},
         rotor_type \in NotchedTypes, position \in Letters, ring_setting \in 1..26}

MidText == [k \in 1..MaxLen |-> "A"]

InitMid ==
    /\ drum \in MidDrums
    /\ plugboard = Plugboard
    /\ reflector = Reflector("B")
    /\ pc = "idle"
    /\ a_string = << >>
    /\ encoded = << >>
    /\ third_notch_rotation = FALSE
    /\ raised = "none"
    /\ last_op = NoOp
    /\ last_call = NoCall
    /\ steps = << >>
    /\ NoPlugHistory
    /\ NoBreaker

NextMid ==
    \/ EncodeBegin(MidText)
    \/ EncodeChar
    \/ EncodeReturn

SpecMid == InitMid /\ [][NextMid]_vars

\* on character k rotor 1 is rotated while it shows its notch letter
RotatedOffNotchLetter(k) ==
    \E before \in {DrumBeforeChar(k)[2]} :
        \/ steps[k][2] >= 1 /\ ShowsNotchLetter(before)
        \/ steps[k][2] >= 2 /\ ShowsNotchLetter(rotate_rotor(before, -1))

\* C18: rotor 2 steps with the notch event of rotor 1.  On a 3-rotor engine
\* of notched rotors rotor 2 is rotated on a character if and only if rotor 1
\* is rotated off its notch letter on that character.
C18_ThirdRotorStepsWithSecond ==
    (pc = "loop" /\ Len(drum) = 3 /\ \A n \in 1..3 : ~ Notchless(drum[n]))
    => \A k \in 1..Len(steps) : (steps[k][3] = 1) <=> RotatedOffNotchLetter(k)

----------------------------------------------------------------------------
(* CodeBreaker.encode_part3: the joint search for the rotors, the ring     *)
(* settings and the reflector                                              *)

\* the number of ring settings and of rotor types, from the first of each
\* list of get_r3_combination on, that the candidates are built from
NumRingSettings == 1

NumRotorTypes == 2

r3_ring_settings ==
    SubSeq(<< <<"0", "2">>, <<"0", "4">>, <<"0", "6">>, <<"0", "8">>,
              <<"2", "0">>, <<"2", "2">>, <<"2", "4">>, <<"2", "6">> >>, 1, NumRingSettings)

r3_rotors == SubSeq(<<"II", "IV", "Beta", "Gamma">>, 1, NumRotorTypes)

\* get_r3_combination: the elements are <<ring settings, rotors, reflector>>
get_r3_combination ==
    CHOOSE out \in
        {product(<<possible_ring_settings_list, possible_rotors_list, reflectors>>) :
             possible_ring_settings_list \in
                 {product(<<r3_ring_settings, r3_ring_settings, r3_ring_settings>>)},
             possible_rotors_list \in {product(<<r3_rotors, r3_rotors, r3_rotors>>)}} : TRUE

r3_combinations == get_r3_combination

change_rotors(d, new_setup) == [d EXCEPT !.rotors = Some(new_setup)]

change_ring_setting(d, new_settings) == [d EXCEPT !.ring_settings = Some(new_settings)]

\* the configurations of the joint search: rotors, ring settings and
\* reflector unknown
Part3Config(code, crib) ==
    [code |-> Some(code), crib |-> Some(crib), rotors |-> None,
     reflector |-> None, ring_settings |-> None,
     starting_positions |-> Some(<<"A", "B", "C">>), plugboard |-> Some(two_plugs)]

\* the crib is found with the default configuration, with the first, the
\* 6th, the 12th and the last element of r3_combinations, and with none
Part3Choices ==
    {Part3Config(<<"R", "O", "S">>, <<"H", "E", "Y">>),
     Part3Config(<<"X", "L", "E">>, <<"H", "E", "Y">>),
     Part3Config(<<"Y", "C", "K">>, <<"H", "E", "Y">>),
     Part3Config(<<"A", "F", "N">>, <<"H", "E", "Y">>),
     Part3Config(<<"D", "J", "H">>, <<"H", "E", "Y">>),
     Part3Config(<<"O", "M", "F">>, no_crib)}

InitPart3 ==
    /\ \E d \in Part3Choices : \E cb \in {CodeBreaker(d, "ascending")} :
              /\ data = cb.data
              /\ missing_information = cb.missing_information
              /\ plug_combinations = cb.plug_combinations
              /\ drum = cb.drum
              /\ plugboard = cb.plugboard
              /\ reflector = cb.reflector
    /\ cb_pc = "built"
    /\ enc_i = 0
    /\ sp = << >>
    /\ cypher = << >>
    /\ result = << >>
    /\ tested = << >>
    /\ pc = "idle"
    /\ a_string = << >>
    /\ encoded = << >>
    /\ third_notch_rotation = FALSE
    /\ raised = "none"
    /\ last_op = NoOp
    /\ last_call = NoCall
    /\ steps = << >>
    /\ NoPlugHistory

\* encode_part3, lines 324-325
Part3Begin ==
    /\ cb_pc = "built"
    /\ cb_pc' = "trial"
    /\ enc_i' = 0
    /\ UNCHANGED <<drum, plugboard, reflector, raised, call_vars, plug_vars>>
    /\ UNCHANGED <<data, missing_information, plug_combinations, sp, cypher, result, tested>>

\* encode_part3, line 327: the trial encoding of the code
Part3Trial ==
    /\ cb_pc = "trial"
    /\ tested' = Append(tested, engine_settings)
    /\ \E out \in {encode_sequence(drum, plugboard, reflector, the(data.code))} :
          /\ drum' = out.drum
          /\ IF out.exc # "none"
             THEN /\ raised' = out.exc
                  /\ cb_pc' = "raised"
                  /\ UNCHANGED cypher
             ELSE /\ cypher' = out.encoded
                  /\ cb_pc' = "advance"
                  /\ UNCHANGED raised
    /\ UNCHANGED <<plugboard, reflector, call_vars, plug_vars>>
    /\ UNCHANGED <<data, missing_information, plug_combinations, enc_i, sp, result>>

Crib_not_found == <<"Crib not found">>

\* list[i] of Python for i >= -1, i = -1 being the last element
AtPy(list, i) == IF i < 0 THEN list[Len(list) + 1 + i] ELSE list[i + 1]

\* encode_part3, lines 329-344: the crib test, the next candidate, i += 1,
\* the test of i against the length of the list and the return.  The found
\* message is kept as its parts: the cypher, the reflector, the rotors, the
\* ring settings and the leads of the plugboard
Part3Advance ==
    /\ cb_pc = "advance"
    /\ IF in_string(the(data.crib), cypher)
       THEN /\ result' = IF enc_i + 1 > Len(r3_combinations)
                         THEN Crib_not_found
                         ELSE <<cypher, reflector.r_type,
                                AtPy(r3_combinations, enc_i - 1)[2],
                                AtPy(r3_combinations, enc_i - 1)[1],
                                plugboard.plug_leads>>
            /\ enc_i' = enc_i + 1
            /\ cb_pc' = "returned"
            /\ UNCHANGED <<drum, reflector, raised, data>>
       ELSE IF enc_i >= Len(r3_combinations)
            THEN /\ raised' = "IndexError"
                 /\ cb_pc' = "raised"
                 /\ UNCHANGED <<drum, reflector, data, enc_i, result>>
            ELSE \E next \in {change_ring_setting(
                                  change_rotors(data, At0(r3_combinations, enc_i)[2]),
                                  At0(r3_combinations, enc_i)[1])} :
                 \E enigma \in {setup_enigma(next)} :
                    /\ data' = next
                    /\ reflector' = Reflector(At0(r3_combinations, enc_i)[3])
                    /\ drum' = enigma.drum
                    /\ raised' = enigma.exc
                    /\ enc_i' = IF enigma.exc # "none" THEN enc_i ELSE enc_i + 1
                    /\ cb_pc' = IF enigma.exc # "none" THEN "raised"
                                ELSE IF enc_i + 1 > Len(r3_combinations)
                                     THEN "returned" ELSE "trial"
                    /\ result' = IF enigma.exc = "none" /\ enc_i + 1 > Len(r3_combinations)
                                 THEN Crib_not_found ELSE result
    /\ UNCHANGED <<plugboard, call_vars, plug_vars>>
    /\ UNCHANGED <<missing_information, plug_combinations, sp, cypher, tested>>

NextPart3 ==
    \/ Part3Begin
    \/ Part3Trial
    \/ Part3Advance

SpecPart3 == InitPart3 /\ [][NextPart3]_vars

----------------------------------------------------------------------------
(* Claims on CodeBreaker.encode_part3                                      *)

\* the configurations in the order of the search: the default one, then
\* the elements of r3_combinations
P3Candidate(k) ==
    IF k = 0
    THEN << << <<"0", "1">>, <<"0", "1">>, <<"0", "1">> >>, <<"I", "II", "III">>, "b">>
    ELSE r3_combinations[k]

\* the decoding of the code by the engine of candidate k
P3Decoding(k) ==
    With(P3Candidate(k), LAMBDA c :
        encode_sequence(
            setup_enigma(change_ring_setting(change_rotors(data, c[2]), c[1])).drum,
            plugboard, Reflector(c[3]), the(data.code)).encoded)

P3Matches(k) == in_string(the(data.crib), P3Decoding(k))

P3Ended == cb_pc \in {"returned", "raised"}

P3Found == cb_pc = "returned" /\ Len(result) = 5

\* C19: the joint search finds any matching candidate.  When encode_part3
\* ends and the decoding under the default configuration or under an element
\* of r3_combinations, the last one included, contains the crib, it has
\* returned the found message of the first such configuration; it returns
\* 'Crib not found' only when none of them matches.
C19_JointSearchFindsMatch ==
    P3Ended =>
        /\ \A k \in 0..Len(r3_combinations) :
               (P3Matches(k) /\ \A j \in 0..(k - 1) : ~ P3Matches(j))
               => (P3Found /\ result[1] = P3Decoding(k))
        /\ (cb_pc = "returned" /\ result = Crib_not_found)
               => \A k \in 0..Len(r3_combinations) : ~ P3Matches(k)

\* C20: the found message of encode_part3 names the rotor types, the ring
\* settings and the reflector type of the engine whose output contained the
\* crib, the first trial with the default configuration included.
C20_FoundMessageNamesEngine ==
    P3Found =>
        /\ in_string(the(data.crib), cypher)
        /\ result[2] = reflector.r_type
        /\ \A n \in 1..3 :
               /\ result[3][n] = drum[4 - n].rotor_type
               /\ int(result[4][n]) = drum[4 - n].ring_setting

----------------------------------------------------------------------------
(* CodeBreaker.encode_part5: the search for the rewired reflector          *)

\* combinations(wiring, 4), line 231: the selection that follows sel.  The
\* last index that can still grow is raised by one and the indices after
\* it follow it one by one
next_selection(sel) ==
    With(CHOOSE i \in 1..4 :
             /\ sel[i] < 13 - 4 + i
             /\ \A j \in (i + 1)..4 : sel[j] = 13 - 4 + j,
         LAMBDA i : [k \in 1..4 |-> IF k < i THEN sel[k] ELSE sel[i] + 1 + (k - i)])

\* possible_wiring_changes as the list combinations gives, cut to its
\* first n elements
RECURSIVE selections_from(_, _, _)
selections_from(sel, n, list) ==
    IF n = 0 THEN list
    ELSE With(Append(list, sel), LAMBDA next :
             IF n = 1 THEN next ELSE selections_from(next_selection(sel), n - 1, next))

selection_list == selections_from(<<1, 2, 3, 4>>, NumSelections, << >>)

\* the order in which permutations gives the permutations
permutation_before(p, q) ==
    \E k \in 1..4 : p[k] < q[k] /\ \A j \in 1..(k - 1) : p[j] = q[j]

RECURSIVE permutations_in_order(_)
permutations_in_order(S) ==
    IF S = {} THEN << >>
    ELSE With(CHOOSE x \in S : \A y \in S \ {x} : permutation_before(x, y), LAMBDA first :
             <<first>> \o permutations_in_order(S \ {first}))

permutation_list == permutations_in_order(input_permutations)

\* set_reflector_combinations, lines 250-257: the elements made from one
\* selection, from its m-th permutation on
RECURSIVE combinations_of_selection(_, _, _, _, _)
combinations_of_selection(refl, sel, perms, m, list) ==
    IF m > Len(perms) THEN list
    ELSE With(Append(list, reflector_combination(refl, sel, perms[m])), LAMBDA next :
             combinations_of_selection(refl, sel, perms, m + 1, next))

\* lines 255-257: the elements of the selections from the n-th on
RECURSIVE reflector_combinations_from(_, _, _, _, _)
reflector_combinations_from(refl, sels, perms, n, list) ==
    IF n > Len(sels) THEN list
    ELSE With(combinations_of_selection(refl, sels[n], perms, 1, list), LAMBDA next :
             reflector_combinations_from(refl, sels, perms, n + 1, next))

\* set_reflector_combinations(reflector) on the empty list of __init__
set_reflector_combinations(refl) ==
    With(selection_list, LAMBDA sels :
        With(permutation_list, LAMBDA perms :
            reflector_combinations_from(refl, sels, perms, 1, << >>)))

\* self.reflector_combinations during encode_part5: line 353 builds it from
\* the reflector of __init__, which is the one data names
reflector_combinations == set_reflector_combinations(Reflector(the(data.reflector)))

\* encode_part5, lines 357-368
crib_list ==
    <<<<"F", "A", "C", "E", "B", "O", "O", "K">>,
      <<"F", "L", "I", "C", "K", "E", "R">>,
      <<"L", "I", "N", "K", "E", "D", "I", "N">>,
      <<"T", "W", "I", "T", "T", "E", "R">>,
      <<"I", "N", "S", "T", "A", "G", "R", "A", "M">>,
      <<"Y", "O", "U", "T", "U", "B", "E">>,
      <<"P", "I", "N", "T", "E", "R", "E", "S", "T">>,
      <<"T", "U", "M", "B", "L", "R">>,
      <<"R", "E", "D", "D", "I", "T">>,
      <<"S", "N", "A", "P", "C", "H", "A", "T">>>>

\* lines 369-370: some crib of the list is in the text
crib_in(text) == \E n \in 1..Len(crib_list) : in_string(crib_list[n], text)

\* the configurations of the search: the crib is found with the catalog
\* reflector, with the 4th element of reflector_combinations, with the last
\* but one, with the last, and with none
Part5Choices ==
    {Config(<<"N", "W", "I", "A", "P", "R">>, no_crib, Some("B"), Some(<<"A", "B", "C">>), two_plugs),
     Config(<<"N", "W", "H", "A", "P", "Q">>, no_crib, Some("B"), Some(<<"A", "B", "C">>), two_plugs),
     Config(<<"B", "U", "S", "R", "A", "Q">>, no_crib, Some("B"), Some(<<"A", "B", "C">>), two_plugs),
     Config(<<"A", "B", "V", "H", "A", "Q">>, no_crib, Some("B"), Some(<<"A", "B", "C">>), two_plugs),
     Config(<<"O", "M", "F", "O", "M", "F">>, no_crib, Some("B"), Some(<<"A", "B", "C">>), two_plugs)}

InitPart5 ==
    /\ \E d \in Part5Choices : \E cb \in {CodeBreaker(d, "ascending")} :
              /\ data = cb.data
              /\ missing_information = cb.missing_information
              /\ plug_combinations = cb.plug_combinations
              /\ drum = cb.drum
              /\ plugboard = cb.plugboard
              /\ reflector = cb.reflector
    /\ cb_pc = "built"
    /\ enc_i = 0
    /\ sp = << >>
    /\ cypher = << >>
    /\ result = << >>
    /\ tested = << >>
    /\ pc = "idle"
    /\ a_string = << >>
    /\ encoded = << >>
    /\ third_notch_rotation = FALSE
    /\ raised = "none"
    /\ last_op = NoOp
    /\ last_call = NoCall
    /\ steps = << >>
    /\ NoPlugHistory

\* encode_part5, lines 351-353
Part5Begin ==
    /\ cb_pc = "built"
    /\ cb_pc' = "trial"
    /\ enc_i' = 0
    /\ UNCHANGED <<drum, plugboard, reflector, raised, call_vars, plug_vars>>
    /\ UNCHANGED <<data, missing_information, plug_combinations, sp, cypher, result, tested>>

\* encode_part5, line 355: the trial encoding of the code; the history
\* keeps the wiring of the reflector of each trial
Part5Trial ==
    /\ cb_pc = "trial"
    /\ tested' = Append(tested, reflector.wiring)
    /\ \E out \in {encode_sequence(drum, plugboard, reflector, the(data.code))} :
          /\ drum' = out.drum
          /\ IF out.exc # "none"
             THEN /\ raised' = out.exc
                  /\ cb_pc' = "raised"
                  /\ UNCHANGED cypher
             ELSE /\ cypher' = out.encoded
                  /\ cb_pc' = "advance"
                  /\ UNCHANGED raised
    /\ UNCHANGED <<plugboard, reflector, call_vars, plug_vars>>
    /\ UNCHANGED <<data, missing_information, plug_combinations, enc_i, sp, result>>

No_results == <<"No results">>

\* encode_part5, lines 369-384: the test of the cribs, the reflector
\* rewired with element i of reflector_combinations, the new engine,
\* i += 1, the test of i against the length of the list and the return.
\* The found message is kept as its parts: the cypher, the reflector type
\* and the wiring of the reflector
Part5Advance ==
    /\ cb_pc = "advance"
    /\ \E list \in {reflector_combinations} :
       \E new_reflector \in {Reflector_wired(reflector.r_type,
                                  rewire_reflector(reflector, At0(list, enc_i)))} :
       \E enigma \in {setup_enigma(data)} :
          /\ reflector' = new_reflector
          /\ drum' = enigma.drum
          /\ raised' = enigma.exc
          /\ IF enigma.exc # "none"
             THEN /\ cb_pc' = "raised"
                  /\ UNCHANGED <<enc_i, result>>
             ELSE /\ enc_i' = enc_i + 1
                  /\ result' = IF enc_i + 1 >= Len(list) THEN No_results
                               ELSE IF crib_in(cypher)
                                    THEN <<cypher, reflector.r_type, reflector.wiring>>
                                    ELSE result
                  /\ cb_pc' = IF enc_i + 1 >= Len(list) \/ crib_in(cypher)
                              THEN "returned" ELSE "trial"
    /\ UNCHANGED <<plugboard, call_vars, plug_vars>>
    /\ UNCHANGED <<data, missing_information, plug_combinations, sp, cypher, tested>>

NextPart5 ==
    \/ Part5Begin
    \/ Part5Trial
    \/ Part5Advance

SpecPart5 == InitPart5 /\ [][NextPart5]_vars

\* the reflector of candidate k of the search: the one of __init__, then
\* the elements of the list
P5Reflector(list, k) ==
    With(Reflector(the(data.reflector)), LAMBDA refl :
        IF k = 0 THEN refl
        ELSE Reflector_wired(refl.r_type, rewire_reflector(refl, list[k])))

\* the decoding of the code by the engine of candidate k
P5Decoding(list, k) ==
    encode_sequence(setup_enigma(data).drum, plugboard, P5Reflector(list, k),
                    the(data.code)).encoded

\* the first candidate from k on whose decoding holds a crib, -1 for none
RECURSIVE P5FirstMatch(_, _)
P5FirstMatch(list, k) ==
    IF k > Len(list) THEN -1
    ELSE IF crib_in(P5Decoding(list, k)) THEN k ELSE P5FirstMatch(list, k + 1)

\* C21: the reflector-wiring search reports the first hit.  When
\* encode_part5 has returned and the decoding under some candidate wiring
\* holds a crib of the list, the result is the found message of the first
\* such wiring; 'No results' is returned only when every element of
\* reflector_combinations has been tested and none yields a crib.
C21_ReflectorSearchFirstHit ==
    cb_pc = "returned" =>
        \E list \in {reflector_combinations} : \E first \in {P5FirstMatch(list, 0)} :
            IF first >= 0
            THEN /\ Len(result) = 3
                 /\ result[1] = P5Decoding(list, first)
                 /\ result[3] = P5Reflector(list, first).wiring
            ELSE /\ result = No_results
                 /\ \E wirings \in {{tested[t] : t \in 1..Len(tested)}} :
                        \A k \in 1..Len(list) : P5Reflector(list, k).wiring \in wirings

----------------------------------------------------------------------------
(* The engine on valid configurations, each call of encode_sequence as one *)
(* step                                                                    *)

\* a rotor in slot 0 at every start position, and the drums of three and
\* four rotors above
SelfDrums ==
    RecipDrums \cup
    {<<Rotor("I", position, 26), Rotor("II", "E", 5), Rotor("Gamma", "A", 1)>> :
         position \in Letters}

\* a catalog reflector and a reflector of type B with four pairs rewired
SelfReflectors ==
    {Reflector("C")} \cup
    {Reflector_wired("B", rewire_reflector(Reflector("B"),
         reflector_combination(Reflector("B"), <<1, 2, 3, 4>>, <<2, 1, 4, 3>>)))}

\* a letter repeated MaxLen times
SelfTexts == {[k \in 1..MaxLen |-> x] : x \in Letters}

InitSelf ==
    /\ drum \in SelfDrums
    /\ plugboard \in RecipPlugboards
    /\ reflector \in SelfReflectors
    /\ pc = "idle"
    /\ a_string = << >>
    /\ encoded = << >>
    /\ third_notch_rotation = FALSE
    /\ raised = "none"
    /\ last_op = NoOp
    /\ last_call = NoCall
    /\ steps = << >>
    /\ NoPlugHistory
    /\ NoBreaker

\* encode_sequence(text), lines 17-65, from the call to the return
EncodeSequence(text) ==
    /\ \E out \in {encode_sequence(drum, plugboard, reflector, text)} :
          /\ drum' = out.drum
          /\ raised' = out.exc
          /\ unit_call' = [op |-> "encode_sequence", arg |-> text,
                           out |-> IF out.exc = "none" THEN out.encoded ELSE << >>,
                           prev |-> << >>]
    /\ UNCHANGED <<plugboard, reflector, last_add, the_lead, call_vars, breaker_vars>>

NextSelf == \E text \in SelfTexts : EncodeSequence(text)

SpecSelf == InitSelf /\ [][NextSelf]_vars

\* C23: no letter encrypts to itself.  On a valid configuration the string
\* encode_sequence returns has the length of the input and differs from it
\* at every position.
C23_NoLetterToItself ==
    unit_call.op = "encode_sequence"
    => /\ raised = "none"
       /\ Len(unit_call.out) = Len(unit_call.arg)
       /\ \A k \in 1..Len(unit_call.arg) : unit_call.out[k] # unit_call.arg[k]

C23_Witness ==
    /\ unit_call.op = "encode_sequence"
    /\ Len(unit_call.arg) = MaxLen
    /\ unit_call.arg[1] = "K"
    /\ Len(drum) = 4
    /\ Len(plugboard.plug_leads) = 3
    /\ reflector \notin RecipReflectors

----------------------------------------------------------------------------
(* Claims on the steps of one character                                    *)

\* C24: at most one step per rotor per character.  While encode_sequence
\* processes one character rotor 0 is rotated exactly once, rotor 1 at most
\* once and rotor 2 at most once.
C24_OneStepPerCharacter ==
    pc = "loop"
    => \A k \in 1..Len(steps) :
           /\ steps[k][1] = 1
           /\ steps[k][2] <= 1
           /\ steps[k][3] <= 1

----------------------------------------------------------------------------
(* The engine on texts of one length, with several plugboards and          *)
(* reflectors                                                              *)

StepLen == 3

\* the drums of three and four rotors above and one whose rotor 0 carries on
\* the first character
StepDrums ==
    RecipDrums \cup {<<Rotor("III", "V", 2), Rotor("IV", "I", 10), Rotor("III", "A", 1)>>}

StepReflectors == {Reflector("a"), Reflector("C")}

\* the texts of StepLen letters A and K
StepTexts == [1..StepLen -> {"A", "K"}]

InitStep ==
    /\ drum \in StepDrums
    /\ plugboard \in RecipPlugboards
    /\ reflector \in StepReflectors
    /\ pc = "idle"
    /\ a_string = << >>
    /\ encoded = << >>
    /\ third_notch_rotation = FALSE
    /\ raised = "none"
    /\ last_op = NoOp
    /\ last_call = NoCall
    /\ steps = << >>
    /\ NoPlugHistory
    /\ NoBreaker

NextStep ==
    \/ \E text \in StepTexts : EncodeBegin(text)
    \/ EncodeChar
    \/ EncodeReturn

SpecStep == InitStep /\ [][NextStep]_vars

\* the drum after n characters of a run from the same settings on the
\* letters A, with no lead plugged and the reflector B
ReferenceDrum(n) ==
    encode_loop([drum |-> last_op.drum, tnr |-> third_notch_initial(last_op.drum),
                 encoded |-> << >>, exc |-> "none", rot |-> <<0, 0, 0, FALSE>>],
                Plugboard, Reflector("B"), [k \in 1..n |-> "A"], 1).drum

\* C25: stepping is independent of the text.  After each character of a run
\* of encode_sequence the rotors stand as after as many characters of the
\* run on other letters with another plugboard and another reflector.
C25_SteppingIndependentOfText ==
    pc = "loop" => drum = ReferenceDrum(Len(encoded))

C25_Witness ==
    /\ pc = "loop"
    /\ Len(encoded) = StepLen
    /\ a_string[1] = "K" /\ a_string[StepLen] = "K"
    /\ Len(plugboard.plug_leads) = 3
    /\ \E k \in 1..Len(steps) : steps[k][2] >= 1

\* C26: the fourth rotor is static.  In an engine of four rotors the rotor
\* in slot 3 has the rotor_wiring, the label and the notch of its
\* construction before every character of encode_sequence and when the
\* call has returned.
C26_FourthRotorStatic ==
    Len(drum) = 4
    => \E built \in {constructed(drum)[4]} :
           /\ drum[4].rotor_wiring = built.rotor_wiring
           /\ drum[4].label = built.label
           /\ drum[4].notch = built.notch

C26_Witness ==
    /\ pc = "loop"
    /\ Len(drum) = 4
    /\ Len(encoded) = StepLen
    /\ \E k \in 1..Len(steps) : steps[k][2] >= 1
    /\ drum[1] # constructed(drum)[1]
====
